---- MODULE Spec2Model ----
(***************************************************************************)
(* A model of the outrights-mle package: the payoff parser and the market  *)
(* initialisation (markets.go), the request validation, the MLE solver     *)
(* (gradient ascent with zero-sum renormalisation) and the orchestration   *)
(* of RunSimulation / RunMLESolver.                                        *)
(*                                                                         *)
(* Go strings that the code takes apart (payoff expressions, season codes) *)
(* are sequences of one-character strings.  Names that the code only       *)
(* compares (teams, leagues, market names) are TLA+ strings.               *)
(*                                                                         *)
(* float64 values are exact rationals [n |-> numerator, d |-> denominator] *)
(* in lowest terms.  math.Exp and math.Log have no rational values, so     *)
(* they are replaced by the rational pair Exp / Log below, which keeps     *)
(* what the code relies on: Exp is positive, strictly increasing,          *)
(* Exp(0) = 1, Exp(-x) = 1/Exp(x), and Log is its inverse.                 *)
(***************************************************************************)
EXTENDS Integers, Sequences, FiniteSets, TLC

VARIABLES
    pc,            \* position of the running entry point
    payoffExpr,    \* parsePayoff: the expression handed in
    payoffOut,     \* parsePayoff: the returned ([]float64, error)
    markets,       \* []Market handed to validateAndInitializeMarkets (updated in place)
    currentTeams,  \* map league -> authoritative team list
    marketErr,     \* the error validateAndInitializeMarkets returned ("" is nil)
    marketsAccepted, \* history: how many markets the call initialised without error
    solver,        \* the MLESolver but for its params
    params,        \* MLESolver.params (s.params), Nil before Optimize sets it
    iter,          \* Optimize: the loop variable
    prevLogLikelihood, \* Optimize: the local of that name
    optOut,        \* what Optimize returned: [params, err]
    steps,         \* history: the number of updateRatings calls so far
    llTrace,       \* history: <<L_0, L_1, ...>>, the log-likelihood after each step
    request,       \* RunSimulation: the MLERequest
    runOut,        \* what RunSimulation returned: [result, err]
    call,          \* RunMLESolver: its arguments, the league groups it loaded, its locals
    leaguesLeft,   \* RunMLESolver: the leagues the loop has still to go through
    seasonResult,  \* RunMLESolver: the SeasonPointsResult of the league in work
    result,        \* RunMLESolver: the MultiLeagueResult it is building
    solverOut,     \* what RunMLESolver returned: [result, err]
    seasonCall,    \* the arguments of the projector function that is running
    seasonTable,   \* calculateLeagueSeasonPointsWithSim: the local leagueTable
    remainingFixtures, \* calculateLeagueSeasonPointsWithSim: the local of that name
    simPoints,     \* the SimPoints of the projection, but for its cache
    positionCache, \* SimPoints.positionCache: cache key -> team -> probabilities
    sortOrders,    \* history: the outcome of the sort of every path, by cache key
    goalsDrawn,    \* history: the goals drawn for the fixtures simulated so far
    expectedOut,   \* SeasonPointsResult.ExpectedPoints once returned
    markValuesOut, \* what calculateMarkValues returned
    timeWeightOut, \* what getTimeWeight returned
    poisson,       \* PoissonSample: its argument, its locals L, k and p, its result
    detect,        \* DetectPromotedTeams: its events, its locals, its result
    dixon,         \* the two DixonColesAdjustment functions: arguments and results
    positionCalls  \* history: the direct calls of positionProbabilities, with what they returned

payoffVars == <<payoffExpr, payoffOut>>
marketVars == <<markets, currentTeams, marketErr, marketsAccepted>>
solverVars == <<solver, params, iter, prevLogLikelihood, optOut, steps, llTrace>>
runVars == <<request, runOut>>
orchVars == <<call, leaguesLeft, seasonResult, result, solverOut>>
seasonVars == <<seasonCall, seasonTable, remainingFixtures, simPoints, positionCache,
                sortOrders, goalsDrawn, expectedOut, markValuesOut, timeWeightOut,
                poisson, detect, dixon, positionCalls>>
vars == <<pc, payoffVars, marketVars, solverVars, runVars, orchVars, seasonVars>>

----------------------------------------------------------------------------
(* Bounds of the model *)

MaxPayoffLen == 5
MaxMarkets == 2
MaxMatches == 2
MaxIter == 3
MaxGoals == 1

----------------------------------------------------------------------------
(* Exact rational arithmetic standing for float64 *)

Abs(i) == IF i < 0 THEN -i ELSE i

RECURSIVE GCD(_, _)
\* Euclid's algorithm, three steps at a time
GCD(a, b) ==
    IF b = 0 THEN a
    ELSE IF a % b = 0 THEN b
    ELSE IF b % (a % b) = 0 THEN a % b
    ELSE GCD(b % (a % b), (a % b) % (b % (a % b)))

Q(n, d) ==
    IF n = 0 /\ d # 0 THEN [n |-> 0, d |-> 1]
    ELSE LET s == IF d < 0 THEN -1 ELSE 1
             g == GCD(Abs(n), Abs(d))
         IN  [n |-> (s * n) \div g, d |-> (s * d) \div g]

QInt(i) == [n |-> i, d |-> 1]
QZero == QInt(0)
QOne == QInt(1)
\* sums over the least common denominator, products after cancelling
LCM(a, b) == (a \div GCD(a, b)) * b
QAdd(a, b) ==
    IF a.n = 0 THEN b
    ELSE IF b.n = 0 THEN a
    ELSE LET l == LCM(a.d, b.d)
         IN  Q(a.n * (l \div a.d) + b.n * (l \div b.d), l)
QSub(a, b) ==
    IF b.n = 0 THEN a
    ELSE IF a.n = 0 THEN [n |-> -b.n, d |-> b.d]
    ELSE LET l == LCM(a.d, b.d)
         IN  Q(a.n * (l \div a.d) - b.n * (l \div b.d), l)
QMul(a, b) ==
    IF a.n = 0 \/ b.n = 0 THEN QZero
    ELSE LET g1 == GCD(Abs(a.n), b.d)
             g2 == GCD(Abs(b.n), a.d)
         IN  Q((a.n \div g1) * (b.n \div g2), (a.d \div g2) * (b.d \div g1))
QDiv(a, b) == QMul(a, Q(b.d, b.n))
QNeg(a) == [n |-> -a.n, d |-> a.d]
QLt(a, b) == QSub(a, b).n < 0
QLe(a, b) == QSub(a, b).n <= 0
QAbs(a) == [n |-> Abs(a.n), d |-> a.d]

RECURSIVE Pow10(_)
Pow10(k) == IF k = 0 THEN 1 ELSE 10 * Pow10(k - 1)

----------------------------------------------------------------------------
(* Strings as sequences of characters *)

Digits == {"0", "1", "2", "3", "4", "5", "6", "7", "8", "9"}

DigitVal(c) ==
    CASE c = "0" -> 0 [] c = "1" -> 1 [] c = "2" -> 2 [] c = "3" -> 3
      [] c = "4" -> 4 [] c = "5" -> 5 [] c = "6" -> 6 [] c = "7" -> 7
      [] c = "8" -> 8 [] c = "9" -> 9

AllDigits(s) == \A i \in 1..Len(s) : s[i] \in Digits

\* the value of a digit string, most significant digit first
RECURSIVE DigitsVal(_)
DigitsVal(s) ==
    IF s = <<>> THEN 0
    ELSE 10 * DigitsVal(SubSeq(s, 1, Len(s) - 1)) + DigitVal(s[Len(s)])

\* strings.Split(s, c) for a one-character separator c
RECURSIVE Split(_, _)
Split(s, c) ==
    IF \A i \in 1..Len(s) : s[i] # c THEN <<s>>
    ELSE LET k == CHOOSE i \in 1..Len(s) :
                      s[i] = c /\ \A j \in 1..(i - 1) : s[j] # c
         IN  <<SubSeq(s, 1, k - 1)>> \o Split(SubSeq(s, k + 1, Len(s)), c)

HasSign(s) == Len(s) > 0 /\ s[1] \in {"+", "-"}
Unsigned(s) == IF HasSign(s) THEN Tail(s) ELSE s

\* strconv.Atoi: an optional sign, then one or more digits
AtoiOk(s) == Len(Unsigned(s)) > 0 /\ AllDigits(Unsigned(s))
AtoiVal(s) ==
    IF Len(s) > 0 /\ s[1] = "-" THEN -DigitsVal(Unsigned(s)) ELSE DigitsVal(Unsigned(s))

\* strconv.ParseFloat(s, 64) on strings of digits, ".", "+" and "-": an
\* optional sign, digits with at most one ".", at least one digit in all
ParseFloatOk(s) ==
    LET u == Unsigned(s)
        parts == Split(u, ".")
    IN  /\ Len(parts) \in {1, 2}
        /\ \A i \in 1..Len(parts) : AllDigits(parts[i])
        /\ \E i \in 1..Len(parts) : Len(parts[i]) > 0

ParseFloatVal(s) ==
    LET u == Unsigned(s)
        parts == Split(u, ".")
        frac == IF Len(parts) = 2 THEN parts[2] ELSE <<>>
        mag == Q(DigitsVal(parts[1] \o frac), Pow10(Len(frac)))
    IN  IF Len(s) > 0 /\ s[1] = "-" THEN QNeg(mag) ELSE mag

----------------------------------------------------------------------------
(* markets.go: parsePayoff *)

\* n copies of v (no copy when n <= 0: the loop "for i := 0; i < n; i++")
Repeat(v, n) == [i \in 1..n |-> v]

PayoffErr == [vec |-> <<>>, err |-> TRUE]

\* a token parser that appends the value once whatever the count says
parsePayoffToken_IgnoreCount(expr) ==
    LET tokens == Split(expr, "x")
    IN  IF Len(tokens) = 1 THEN
            IF ParseFloatOk(tokens[1])
            THEN [vec |-> <<ParseFloatVal(tokens[1])>>, err |-> FALSE]
            ELSE PayoffErr
        ELSE IF Len(tokens) = 2 THEN
            IF AtoiOk(tokens[1]) /\ ParseFloatOk(tokens[2])
            THEN [vec |-> <<ParseFloatVal(tokens[2])>>, err |-> FALSE]
            ELSE PayoffErr
        ELSE PayoffErr

\* one "|"-separated part: (values to append, error)
parsePayoffToken(expr) ==
    LET tokens == Split(expr, "x")
    IN  IF Len(tokens) = 1 THEN
            IF ParseFloatOk(tokens[1])
            THEN [vec |-> <<ParseFloatVal(tokens[1])>>, err |-> FALSE]
            ELSE PayoffErr
        ELSE IF Len(tokens) = 2 THEN
            IF AtoiOk(tokens[1]) /\ ParseFloatOk(tokens[2])
            THEN [vec |-> Repeat(ParseFloatVal(tokens[2]), AtoiVal(tokens[1])),
                  err |-> FALSE]
            ELSE PayoffErr
        ELSE PayoffErr

RECURSIVE parsePayoffParts(_, _)
parsePayoffParts(parts, acc) ==
    IF parts = <<>> THEN [vec |-> acc, err |-> FALSE]
    ELSE LET t == parsePayoffToken(Head(parts))
         IN  IF t.err THEN PayoffErr
             ELSE parsePayoffParts(Tail(parts), acc \o t.vec)

parsePayoff(payoffExprArg) == parsePayoffParts(Split(payoffExprArg, "|"), <<>>)

----------------------------------------------------------------------------
(* markets.go: market initialisation.  A Market is a record                *)
(* [Name, League, Payoff, ParsedPayoff, Teams, Include, Exclude]; an error *)
(* is the string naming it and "" is nil.  The init functions update the   *)
(* market through the pointer, so they return the market as they left it.  *)

Contains(list, x) == \E i \in 1..Len(list) : list[i] = x

\* "Check for unknown teams": the first name of names not in teamNames
HasUnknownTeam(names, teamNames) ==
    \E i \in 1..Len(names) : ~Contains(teamNames, names[i])

\* the payoff steps that end all three init functions: empty payoff, parse
\* failure, then the length test against expectedLength
initPayoff(market, expectedLength) ==
    IF market.Payoff = <<>> THEN [market |-> market, err |-> "no payoff defined"]
    ELSE LET parsed == parsePayoff(market.Payoff)
         IN  IF parsed.err THEN [market |-> market, err |-> "error parsing payoff"]
             ELSE LET m2 == [market EXCEPT !.ParsedPayoff = parsed.vec]
                  IN  IF Len(m2.ParsedPayoff) # expectedLength
                      THEN [market |-> m2, err |-> "payoff length does not match"]
                      ELSE [market |-> m2, err |-> ""]

initIncludeMarket(teamNames, market) ==
    IF HasUnknownTeam(market.Include, teamNames)
    THEN [market |-> market, err |-> "unknown team"]
    ELSE initPayoff([market EXCEPT !.Teams = market.Include], Len(market.Include))

\* an exclusion that removes nobody
exceptExcluded_KeepAll(teamNames, exclude) == teamNames

\* "Include all teams except excluded ones", in the order of teamNames
RECURSIVE exceptExcluded(_, _)
exceptExcluded(teamNames, exclude) ==
    IF teamNames = <<>> THEN <<>>
    ELSE (IF Contains(exclude, Head(teamNames)) THEN <<>> ELSE <<Head(teamNames)>>)
         \o exceptExcluded(Tail(teamNames), exclude)

initExcludeMarket(teamNames, market) ==
    IF HasUnknownTeam(market.Exclude, teamNames)
    THEN [market |-> market, err |-> "unknown team"]
    ELSE initPayoff([market EXCEPT !.Teams = exceptExcluded(teamNames, market.Exclude)],
                    Len(teamNames) - Len(market.Exclude))

initStandardMarket(teamNames, market) ==
    initPayoff([market EXCEPT !.Teams = teamNames], Len(teamNames))

\* a loop body without the test for both an include and an exclude list
validateMarket_NoBothCheck(market, teams) ==
    IF market.League = "" THEN [market |-> market, err |-> "no league specified"]
    ELSE IF market.League \notin DOMAIN teams
    THEN [market |-> market, err |-> "unknown league"]
    ELSE IF Len(market.Include) > 0
    THEN initIncludeMarket(teams[market.League], market)
    ELSE IF Len(market.Exclude) > 0
    THEN initExcludeMarket(teams[market.League], market)
    ELSE initStandardMarket(teams[market.League], market)

\* the body of the loop of validateAndInitializeMarkets for one market
validateMarket(market, teams) ==
    IF market.League = "" THEN [market |-> market, err |-> "no league specified"]
    ELSE IF market.League \notin DOMAIN teams
    THEN [market |-> market, err |-> "unknown league"]
    ELSE IF Len(market.Include) > 0 /\ Len(market.Exclude) > 0
    THEN [market |-> market, err |-> "both include and exclude"]
    ELSE IF Len(market.Include) > 0
    THEN initIncludeMarket(teams[market.League], market)
    ELSE IF Len(market.Exclude) > 0
    THEN initExcludeMarket(teams[market.League], market)
    ELSE initStandardMarket(teams[market.League], market)

\* validateAndInitializeMarkets from market i on: the markets as the call
\* leaves them (the loop body works through the pointer &markets[i]), the
\* error it returns, and how many markets it accepted
RECURSIVE validateFrom(_, _, _)

\* after the loop body left market i as r.market and returned r.err
validateStep(ms, teams, i, r) ==
    IF r.err # ""
    THEN [markets |-> [ms EXCEPT ![i] = r.market], err |-> r.err, accepted |-> i - 1]
    ELSE validateFrom([ms EXCEPT ![i] = r.market], teams, i + 1)

validateFrom(ms, teams, i) ==
    IF i > Len(ms) THEN [markets |-> ms, err |-> "", accepted |-> Len(ms)]
    ELSE validateStep(ms, teams, i, validateMarket(ms[i], teams))

validateAndInitializeMarkets(ms, teams) == validateFrom(ms, teams, 1)

----------------------------------------------------------------------------
(* Rational stand-ins for math.Exp, math.Log and math.Pow: the exponential  *)
(* to base 2, linear between consecutive integers.  Exp is increasing and  *)
(* continuous, Exp(0) = 1, and Log is its inverse.                         *)

Pow2(k) == IF k >= 0 THEN QInt(2^k) ELSE [n |-> 1, d |-> 2^(-k)]

Floor(x) == x.n \div x.d

\* math.Exp
Exp(x) == QMul(Pow2(Floor(x)), QAdd(QOne, QSub(x, QInt(Floor(x)))))

\* the j with 2^j <= v < 2^(j+1), for an integer v >= 1
ILog2(v) == CHOOSE j \in 0..30 : v \div (2^j) = 1

\* the k with 2^k <= y < 2^(k+1)
LogFloor(y) ==
    IF y.n >= y.d THEN ILog2(y.n \div y.d)
    ELSE -(ILog2(((y.d + y.n - 1) \div y.n) - 1) + 1)

\* math.Log on y > 0
Log(y) == QAdd(QInt(LogFloor(y)), QSub(QDiv(y, Pow2(LogFloor(y))), QOne))

\* math.Pow(base, e) for base > 0; math.Pow(x, 0) is 1
Pow(base, e) == IF e.n = 0 THEN QOne ELSE Exp(QMul(e, Log(base)))

\* the sum of qs[lo..hi]; rational addition is associative, so the sum does
\* not depend on the order in which a loop of the code adds the terms
RECURSIVE SumRange(_, _, _)
SumRange(qs, lo, hi) ==
    IF lo > hi THEN QZero
    ELSE IF lo = hi THEN qs[lo]
    ELSE QAdd(SumRange(qs, lo, (lo + hi) \div 2),
              SumRange(qs, ((lo + hi) \div 2) + 1, hi))

SumSeq(qs) == SumRange(qs, 1, Len(qs))

\* the sum of f over the set S, by halves
RECURSIVE SumOver(_, _)
SumHalves(S, f, H) == QAdd(SumOver(H, f), SumOver(S \ H, f))

SumOver(S, f) ==
    IF S = {} THEN QZero
    ELSE IF Cardinality(S) = 1 THEN f[CHOOSE x \in S : TRUE]
    ELSE SumHalves(S, f, CHOOSE H \in SUBSET S : Cardinality(H) = Cardinality(S) \div 2)

----------------------------------------------------------------------------
(* Go's string order (byte-wise) on the characters the model uses *)

Code(c) ==
    CASE c = "+" -> 43 [] c = "-" -> 45 [] c = "." -> 46
      [] c \in Digits -> 48 + DigitVal(c)
      [] c = "x" -> 120 [] c = "|" -> 124

RECURSIVE StrLess(_, _)
StrLess(a, b) ==
    IF b = <<>> THEN FALSE
    ELSE IF a = <<>> THEN TRUE
    ELSE IF Code(Head(a)) # Code(Head(b)) THEN Code(Head(a)) < Code(Head(b))
    ELSE StrLess(Tail(a), Tail(b))

----------------------------------------------------------------------------
(* The MLE solver.  A MatchResult is a record [Date, Season, League,       *)
(* HomeTeam, AwayTeam, HomeGoals, AwayGoals]; SimParams is a record of the *)
(* fields the solver reads.                                                *)

\* the greatest season of the archive in string order, "" for none
findLatestSeason(matches) ==
    LET seasons == {matches[i].Season : i \in 1..Len(matches)} \cup {<<>>}
    IN  CHOOSE latestSeason \in seasons :
            \A season \in seasons : ~StrLess(latestSeason, season)

TeamsOf(matches) ==
    {matches[i].HomeTeam : i \in 1..Len(matches)}
        \cup {matches[i].AwayTeam : i \in 1..Len(matches)}

NewMLESolver(matches, options, leagueChangeTeams) ==
    [matches |-> matches,
     options |-> options,
     teamNames |-> TeamsOf(matches),
     leagueChangeTeams |-> leagueChangeTeams,
     latestSeason |-> findLatestSeason(matches)]

\* convertSeasonToYear: [ok, year]
convertSeasonToYear(season) ==
    IF Len(season) # 4 THEN [ok |-> FALSE, year |-> 0]
    ELSE IF ~AtoiOk(SubSeq(season, 1, 2)) THEN [ok |-> FALSE, year |-> 0]
    ELSE [ok |-> TRUE, year |-> 2000 + AtoiVal(SubSeq(season, 1, 2))]

\* a weight that counts the latest season as one year back
getTimeWeight_YearBehind(s, season) ==
    LET simParams == s.options.SimParams
        latest == convertSeasonToYear(s.latestSeason)
        this == convertSeasonToYear(season)
    IN  IF ~latest.ok THEN QOne
        ELSE IF ~this.ok THEN QOne
        ELSE Pow(simParams.TimeDecayBase,
                 QMul(QInt(latest.year - this.year + 1), simParams.TimeDecayPower))

getTimeWeight(s, season) ==
    LET simParams == s.options.SimParams
        latest == convertSeasonToYear(s.latestSeason)
        this == convertSeasonToYear(season)
    IN  IF ~latest.ok THEN QOne
        ELSE IF ~this.ok THEN QOne
        ELSE Pow(simParams.TimeDecayBase,
                 QMul(QInt(latest.year - this.year), simParams.TimeDecayPower))

\* a rate that stays at the league-change rate while the last match of the
\* team is of the latest season
getAdaptiveLearningRate_Undecayed(s, team, baseLearningRate, match) ==
    IF team \in s.leagueChangeTeams /\ match.Season = s.latestSeason
    THEN QMul(baseLearningRate, s.options.SimParams.LeagueChangeLearningRate)
    ELSE baseLearningRate

getAdaptiveLearningRate(s, team, baseLearningRate, match) ==
    LET simParams == s.options.SimParams
    IN  IF team \in s.leagueChangeTeams /\ match.Season = s.latestSeason
        THEN LET enhancementRange == QSub(simParams.LeagueChangeLearningRate, QOne)
                 enhancementFactor ==
                     QSub(simParams.LeagueChangeLearningRate,
                          QMul(enhancementRange, getTimeWeight(s, s.latestSeason)))
             IN  QMul(baseLearningRate, enhancementFactor)
        ELSE baseLearningRate

RECURSIVE logFactorial(_)
logFactorial(n) ==
    IF n <= 1 THEN QZero ELSE QAdd(logFactorial(n - 1), Log(QInt(n)))

PoissonProb(lambda, k) ==
    IF k < 0 THEN QZero
    ELSE IF lambda.n <= 0 THEN (IF k = 0 THEN QOne ELSE QZero)
    ELSE Exp(QSub(QSub(QMul(QInt(k), Log(lambda)), lambda), logFactorial(k)))

\* a factor that takes every score below two goals a side for one of the
\* four low scores
DixonColesAdjustment_AnyLowScore(homeGoals, awayGoals, rho) ==
    IF homeGoals > 1 \/ awayGoals > 1 THEN QOne
    ELSE IF homeGoals = awayGoals THEN QSub(QOne, rho)
    ELSE QAdd(QOne, rho)

\* MLESolver.DixonColesAdjustment, the factor of the likelihood
DixonColesAdjustment(homeGoals, awayGoals, rho) ==
    IF homeGoals > 1 \/ awayGoals > 1 THEN QOne
    ELSE IF homeGoals = 0 /\ awayGoals = 0 THEN QSub(QOne, rho)
    ELSE IF homeGoals = 0 /\ awayGoals = 1 THEN QAdd(QOne, rho)
    ELSE IF homeGoals = 1 /\ awayGoals = 0 THEN QAdd(QOne, rho)
    ELSE IF homeGoals = 1 /\ awayGoals = 1 THEN QSub(QOne, rho)
    ELSE QOne

\* a Go map: its entries are stored when it is built, not when it is read
MapOf(f) == f @@ <<>>

\* a Go map read: the zero value for a missing key
Rating(ratings, team) == IF team \in DOMAIN ratings THEN ratings[team] ELSE QZero

lambdaHome(p, match) ==
    Exp(QAdd(QSub(Rating(p.AttackRatings, match.HomeTeam),
                  Rating(p.DefenseRatings, match.AwayTeam)),
             p.HomeAdvantage))

lambdaAway(p, match) ==
    Exp(QSub(Rating(p.AttackRatings, match.AwayTeam),
             Rating(p.DefenseRatings, match.HomeTeam)))

\* the term one match adds to the log-likelihood
logLikelihoodTerm(s, p, match) ==
    LET prob == QMul(QMul(PoissonProb(lambdaHome(p, match), match.HomeGoals),
                          PoissonProb(lambdaAway(p, match), match.AwayGoals)),
                     DixonColesAdjustment(match.HomeGoals, match.AwayGoals, p.Rho))
    IN  IF prob.n > 0 THEN QMul(getTimeWeight(s, match.Season), Log(prob)) ELSE QZero

CalculateLogLikelihood(s, p) ==
    SumSeq([i \in 1..Len(s.matches) |-> logLikelihoodTerm(s, p, s.matches[i])])

\* what one match adds to gradients[team+"_attack"]
attackTerm(s, p, match, team) ==
    LET w == getTimeWeight(s, match.Season)
        home == IF match.HomeTeam = team
                THEN QMul(w, QSub(QInt(match.HomeGoals), lambdaHome(p, match)))
                ELSE QZero
        away == IF match.AwayTeam = team
                THEN QMul(w, QSub(QInt(match.AwayGoals), lambdaAway(p, match)))
                ELSE QZero
    IN  QAdd(home, away)

\* what one match adds to gradients[team+"_defense"]
defenseTerm(s, p, match, team) ==
    LET w == getTimeWeight(s, match.Season)
        home == IF match.HomeTeam = team
                THEN QMul(w, QSub(lambdaAway(p, match), QInt(match.AwayGoals)))
                ELSE QZero
        away == IF match.AwayTeam = team
                THEN QMul(w, QSub(lambdaHome(p, match), QInt(match.HomeGoals)))
                ELSE QZero
    IN  QAdd(home, away)

Plays(match, team) == match.HomeTeam = team \/ match.AwayTeam = team

\* teamLastMatch[team]: the last match of the archive the team plays in
teamLastMatch(s, team) ==
    LET k == CHOOSE i \in 1..Len(s.matches) :
                 /\ Plays(s.matches[i], team)
                 /\ \A j \in (i + 1)..Len(s.matches) : ~Plays(s.matches[j], team)
    IN  s.matches[k]

\* a renormalisation that recentres the attack ratings only
normalizeRatings_AttackOnly(s, p) ==
    IF s.teamNames = {} THEN p
    ELSE LET teamCount == QInt(Cardinality(s.teamNames))
             attackAverage == QDiv(SumOver(s.teamNames, p.AttackRatings), teamCount)
         IN  [p EXCEPT
                 !.AttackRatings =
                     MapOf([t \in s.teamNames |-> QSub(p.AttackRatings[t], attackAverage)])]

normalizeRatings(s, p) ==
    IF s.teamNames = {} THEN p
    ELSE LET teamCount == QInt(Cardinality(s.teamNames))
             attackAverage == QDiv(SumOver(s.teamNames, p.AttackRatings), teamCount)
             defenseAverage == QDiv(SumOver(s.teamNames, p.DefenseRatings), teamCount)
         IN  [p EXCEPT
                 !.AttackRatings =
                     MapOf([t \in s.teamNames |-> QSub(p.AttackRatings[t], attackAverage)]),
                 !.DefenseRatings =
                     MapOf([t \in s.teamNames |->
                               QSub(p.DefenseRatings[t], defenseAverage)])]

\* the parameter update of updateRatings, before the renormalisation
gradientStep(s, p, learningRate) ==
    LET n == Len(s.matches)
        exists(t) == \E i \in 1..n : Plays(s.matches[i], t)
        lr(t) == getAdaptiveLearningRate(s, t, learningRate, teamLastMatch(s, t))
        gradA(t) == SumSeq([i \in 1..n |-> attackTerm(s, p, s.matches[i], t)])
        gradD(t) == SumSeq([i \in 1..n |-> defenseTerm(s, p, s.matches[i], t)])
    IN  [p EXCEPT
            !.AttackRatings =
                MapOf([t \in s.teamNames |->
                          IF exists(t) THEN QAdd(p.AttackRatings[t], QMul(lr(t), gradA(t)))
                          ELSE p.AttackRatings[t]]),
            !.DefenseRatings =
                MapOf([t \in s.teamNames |->
                          IF exists(t) THEN QAdd(p.DefenseRatings[t], QMul(lr(t), gradD(t)))
                          ELSE p.DefenseRatings[t]])]

updateRatings(s, p, learningRate) == normalizeRatings(s, gradientStep(s, p, learningRate))

\* the MLEParams Optimize starts from
initialParams(s) ==
    [HomeAdvantage |-> s.options.SimParams.HomeAdvantage,
     Rho |-> Q(-1, 10),
     AttackRatings |-> [t \in s.teamNames |-> QZero],
     DefenseRatings |-> [t \in s.teamNames |-> QZero],
     LogLikelihood |-> QZero,
     Iterations |-> 0,
     Converged |-> FALSE]

\* "Check convergence" in the loop of Optimize
convergedAt(it, currentLogLikelihood, prevLL, tolerance) ==
    it > 0 /\ QLt(QAbs(QSub(currentLogLikelihood, prevLL)), tolerance)

----------------------------------------------------------------------------
(* The state before anything is called *)

None == [none |-> TRUE]

\* a Go nil pointer, and the test "p == nil"
Nil == [nil |-> TRUE]
IsNil(p) == "nil" \in DOMAIN p

PayoffIdle == payoffExpr = <<>> /\ payoffOut = None
MarketsIdle ==
    markets = <<>> /\ currentTeams = <<>> /\ marketErr = "" /\ marketsAccepted = 0
SolverIdle ==
    /\ solver = None /\ params = Nil /\ iter = 0 /\ prevLogLikelihood = QZero
    /\ optOut = None /\ steps = 0 /\ llTrace = <<>>
RunIdle == request = None /\ runOut = None
OrchIdle ==
    /\ call = None /\ leaguesLeft = {} /\ seasonResult = None
    /\ result = None /\ solverOut = None
SeasonIdle ==
    /\ seasonCall = None /\ seasonTable = <<>> /\ remainingFixtures = <<>>
    /\ simPoints = None /\ positionCache = <<>> /\ sortOrders = <<>>
    /\ goalsDrawn = <<>> /\ expectedOut = None
    /\ markValuesOut = None /\ timeWeightOut = None
    /\ poisson = None /\ detect = None /\ dixon = None /\ positionCalls = <<>>

----------------------------------------------------------------------------
(* parsePayoff called on an expression *)

PayoffAlphabet == {"0", "1", "2", ".", "x", "|", "-"}

PayoffExample == <<"1", "|", "4", "x", "0", ".", "2", "5", "|", "1", "5", "x", "0">>

PayoffExprs ==
    UNION {[1..n -> PayoffAlphabet] : n \in 0..MaxPayoffLen}
        \cup {PayoffExample}

InitPayoff ==
    /\ pc = "parsePayoff"
    /\ payoffExpr \in PayoffExprs
    /\ payoffOut = None
    /\ SeasonIdle /\ MarketsIdle /\ SolverIdle /\ RunIdle /\ OrchIdle

ParsePayoff ==
    /\ pc = "parsePayoff"
    /\ payoffOut' = parsePayoff(payoffExpr)
    /\ pc' = "done"
    /\ UNCHANGED <<payoffExpr, seasonVars, marketVars, solverVars, runVars, orchVars>>

NextPayoff == ParsePayoff

SpecPayoff == InitPayoff /\ [][NextPayoff]_vars

----------------------------------------------------------------------------
(* validateAndInitializeMarkets called on a market list *)

Str1 == <<"1">>
Str10 == <<"1", "|", "0">>
Str120 == <<"1", "|", "2", "x", "0">>
StrBad == <<"1", "|", "x">>

Market(name, league, payoff, include, exclude) ==
    [Name |-> name, League |-> league, Payoff |-> payoff, ParsedPayoff |-> <<>>,
     Teams |-> <<>>, Include |-> include, Exclude |-> exclude]

TeamChoices ==
    {<<<<>>, <<>>>>, <<<<"B", "A">>, <<>>>>, <<<<"A", "Z">>, <<>>>>,
     <<<<>>, <<"A">>>>, <<<<>>, <<"A", "A">>>>, <<<<>>, <<"Z">>>>,
     <<<<"A">>, <<"B">>>>}

MarketPool ==
    {Market("m", "ENG1", p, ie[1], ie[2]) :
        p \in {<<>>, Str1, Str10, Str120, StrBad}, ie \in TeamChoices}
    \cup {Market("m", "", Str120, <<>>, <<>>),
          Market("m", "XXX", Str120, <<>>, <<>>),
          Market("m", "SCO1", Str10, <<>>, <<>>),
          Market("m", "SCO1", Str1, <<"A">>, <<>>)}

\* the market lists: the i-th market is named "m<i>"
MarketNames == <<"m1", "m2", "m3", "m4">>

MarketList(f) == [i \in DOMAIN f |-> [f[i] EXCEPT !.Name = MarketNames[i]]]

CurrentTeamsChoices ==
    {[l \in {"ENG1", "SCO1"} |-> IF l = "ENG1" THEN <<"A", "B", "C">> ELSE <<"C", "D">>],
     [l \in {"ENG1"} |-> <<"C", "A", "B">>]}

InitMarkets ==
    /\ pc = "validateMarkets"
    /\ \E n \in 0..MaxMarkets :
          \E f \in [1..n -> MarketPool] : markets = MarketList(f)
    /\ currentTeams \in CurrentTeamsChoices
    /\ marketErr = ""
    /\ marketsAccepted = 0
    /\ PayoffIdle /\ SeasonIdle /\ SolverIdle /\ RunIdle /\ OrchIdle

ValidateMarkets ==
    /\ pc = "validateMarkets"
    /\ \E r \in {validateAndInitializeMarkets(markets, currentTeams)} :
           /\ markets' = r.markets
           /\ marketErr' = r.err
           /\ marketsAccepted' = r.accepted
    /\ pc' = "done"
    /\ UNCHANGED <<currentTeams, payoffVars, seasonVars, solverVars, runVars, orchVars>>

NextMarkets == ValidateMarkets

SpecMarkets == InitMarkets /\ [][NextMarkets]_vars

----------------------------------------------------------------------------
(* The payoff grammar of the interface description, read off the text:     *)
(*   payoff := token ( "|" token )*      token := value | count "x" value  *)
(*   count  := positive integer          value := decimal number           *)

IsValue(v) ==
    LET u == Unsigned(v)
    IN  /\ \A i \in 1..Len(u) : u[i] \in Digits \cup {"."}
        /\ Cardinality({i \in 1..Len(u) : u[i] = "."}) <= 1
        /\ \E i \in 1..Len(u) : u[i] \in Digits

\* the digits of u weighted by their place: 10^(dot-1-i) before the point and
\* 10^-(i-dot) after it
PlaceValue(v) ==
    LET u == Unsigned(v)
        dot == IF \E i \in 1..Len(u) : u[i] = "."
               THEN CHOOSE i \in 1..Len(u) : u[i] = "." ELSE Len(u) + 1
        term(i) == IF i < dot THEN QInt(DigitVal(u[i]) * Pow10(dot - 1 - i))
                   ELSE IF i = dot THEN QZero
                   ELSE Q(DigitVal(u[i]), Pow10(i - dot))
        mag == SumSeq([i \in 1..Len(u) |-> term(i)])
    IN  IF HasSign(v) /\ v[1] = "-" THEN QNeg(mag) ELSE mag

IsCount(c) == Len(c) > 0 /\ AllDigits(c) /\ \E i \in 1..Len(c) : c[i] # "0"

CountValue(c) ==
    LET term(i) == QInt(DigitVal(c[i]) * Pow10(Len(c) - i))
    IN  SumSeq([i \in 1..Len(c) |-> term(i)]).n

XPositions(tok) == {i \in 1..Len(tok) : tok[i] = "x"}

IsToken(tok) ==
    \/ IsValue(tok)
    \/ \E k \in XPositions(tok) :
           IsCount(SubSeq(tok, 1, k - 1)) /\ IsValue(SubSeq(tok, k + 1, Len(tok)))

TokenCount(tok) ==
    IF XPositions(tok) = {} THEN 1
    ELSE CountValue(SubSeq(tok, 1, (CHOOSE k \in XPositions(tok) : TRUE) - 1))

TokenValue(tok) ==
    IF XPositions(tok) = {} THEN PlaceValue(tok)
    ELSE PlaceValue(SubSeq(tok, (CHOOSE k \in XPositions(tok) : TRUE) + 1, Len(tok)))

IsPayoff(e) == \A j \in 1..Len(Split(e, "|")) : IsToken(Split(e, "|")[j])

\* the number of positions the tokens before token j cover
RECURSIVE CountBefore(_, _)
CountBefore(toks, j) ==
    IF j <= 1 THEN 0 ELSE CountBefore(toks, j - 1) + TokenCount(toks[j - 1])

\* the payout of finishing position i (1-based here) under a valid payoff e
PayoutAt(e, i) ==
    LET toks == Split(e, "|")
        j == CHOOSE k \in 1..Len(toks) :
                 CountBefore(toks, k) < i /\ i <= CountBefore(toks, k + 1)
    IN  TokenValue(toks[j])

TotalCount(e) == CountBefore(Split(e, "|"), Len(Split(e, "|")) + 1)

----------------------------------------------------------------------------
(* Claims about parsePayoff (specification SpecPayoff) *)

\* C9: for every valid payoff expression parsePayoff returns no error and a
\* vector of length sum-of-counts whose entry i is the value of the token
\* covering position i; "1|4x0.25|15x0" gives 1, four times 0.25 and fifteen
\* times 0 (length 20).
C9_PayoffExpansion ==
    (pc = "done" /\ IsPayoff(payoffExpr)) =>
        /\ ~payoffOut.err
        /\ Len(payoffOut.vec) = TotalCount(payoffExpr)
        /\ \A i \in 1..Len(payoffOut.vec) : payoffOut.vec[i] = PayoutAt(payoffExpr, i)
        /\ payoffExpr = PayoffExample =>
               payoffOut.vec = <<QOne>> \o [i \in 1..4 |-> Q(1, 4)] \o [i \in 1..15 |-> QZero]

C9_Witness ==
    /\ pc = "done"
    /\ payoffExpr = PayoffExample
    /\ ~payoffOut.err
    /\ Len(payoffOut.vec) = 20
    /\ payoffOut.vec[2] = Q(1, 4)

\* C10: parsePayoff returns an error for every expression with a token that
\* does not match the payoff grammar (more than one "x", a count that is not
\* a positive integer, a value that is not a decimal number).
C10_RejectsInvalid ==
    (pc = "done" /\ ~IsPayoff(payoffExpr)) => payoffOut.err

\* a zero or negative count is accepted and contributes no position
C10_ZeroCountAccepted ==
    /\ pc = "done"
    /\ payoffExpr = <<"0", "x", "1">>
    /\ ~payoffOut.err
    /\ payoffOut.vec = <<>>

----------------------------------------------------------------------------
(* Claims about validateAndInitializeMarkets (specification SpecMarkets) *)

ListSet(list) == {list[i] : i \in 1..Len(list)}

\* the defects C5 lists, of a market against the current-teams map
Defective(m, teams) ==
    \/ m.League = ""
    \/ m.League \notin DOMAIN teams
    \/ m.Include # <<>> /\ m.Exclude # <<>>
    \/ /\ m.League \in DOMAIN teams
       /\ ~(ListSet(m.Include) \cup ListSet(m.Exclude) \subseteq ListSet(teams[m.League]))
    \/ m.Payoff = <<>>

\* C5: validateAndInitializeMarkets returns an error whenever some market of
\* the list has an empty or unknown league, both include and exclude, an
\* include/exclude name outside the league's team list, or an empty payoff;
\* so a nil return means no market has such a defect.
C5_DefectiveMarketRejected ==
    pc = "done" =>
        ((\E i \in 1..Len(markets) : Defective(markets[i], currentTeams))
            => marketErr # "")

C5_Witness ==
    /\ pc = "done"
    /\ Len(markets) = 2
    /\ ~Defective(markets[1], currentTeams)
    /\ marketsAccepted = 1
    /\ markets[2].Include # <<>> /\ markets[2].Exclude # <<>>
    /\ marketErr = "both include and exclude"

\* C7: every accepted market has a parsed payoff as long as its resolved
\* team list.
C7_PayoffLengthMatchesTeams ==
    pc = "done" =>
        \A i \in 1..marketsAccepted :
            Len(markets[i].ParsedPayoff) = Len(markets[i].Teams)

\* the team list C8 describes for a market
ResolvedTeams(m, teams) ==
    IF m.Include # <<>> THEN m.Include
    ELSE IF m.Exclude # <<>>
    THEN SelectSeq(teams[m.League], LAMBDA t : t \notin ListSet(m.Exclude))
    ELSE teams[m.League]

\* C8: the call leaves the authoritative lists as they were and gives every
\* accepted market the include list as given, or the authoritative list minus
\* the excluded names in authoritative order, or the authoritative list.
C8_ResolvedTeamList ==
    [][pc = "validateMarkets" /\ pc' = "done" =>
          /\ currentTeams' = currentTeams
          /\ \A i \in 1..marketsAccepted' :
                 markets'[i].Teams = ResolvedTeams(markets[i], currentTeams)]_vars

C8_Witness ==
    /\ pc = "done"
    /\ marketsAccepted = 2
    /\ currentTeams["ENG1"] = <<"C", "A", "B">>
    /\ markets[1].Exclude = <<"A">> /\ markets[1].Teams = <<"C", "B">>
    /\ markets[2].Include = <<"B", "A">> /\ markets[2].Teams = <<"B", "A">>

----------------------------------------------------------------------------
(* NewMLESolver followed by Optimize (specification Spec) *)

Season2324 == <<"2", "3", "2", "4">>
Season2425 == <<"2", "4", "2", "5">>

Match(date, season, league, home, away, homeGoals, awayGoals) ==
    [Date |-> date, Season |-> season, League |-> league, HomeTeam |-> home,
     AwayTeam |-> away, HomeGoals |-> homeGoals, AwayGoals |-> awayGoals]

MatchPool ==
    {Match("2025-01-03", Season2425, "ENG1", "A", "B", 1, 0),
     Match("2025-01-04", Season2425, "ENG1", "B", "A", 0, 2),
     Match("2025-01-05", Season2425, "ENG1", "B", "C", 1, 1),
     Match("2025-01-06", Season2425, "ENG1", "C", "A", 3, 1),
     Match("2025-01-01", Season2324, "ENG1", "A", "B", 0, 0),
     Match("2025-01-02", Season2324, "ENG2", "C", "B", 2, 1),
     Match("2025-01-07", Season2425, "ENG1", "A", "A", 1, 1)}

Archives == UNION {[1..n -> MatchPool] : n \in 0..MaxMatches}

SimParams(learningRate, maxIterations, tolerance) ==
    [HomeAdvantage |-> Q(1, 2),
     BaseLearningRate |-> learningRate,
     LeagueChangeLearningRate |-> QInt(2),
     TimeDecayBase |-> Q(1, 2),
     TimeDecayPower |-> QOne,
     MaxIterations |-> maxIterations,
     Tolerance |-> tolerance,
     SimulationPaths |-> 1,
     GoalSimulationBound |-> 5,
     GoalDifferenceEffect |-> Q(1, 10)]

Tolerances == {Q(1, 100), QInt(100)}

OptionChoices ==
    {[SimParams |-> SimParams(Q(1, 2), k, tol), Debug |-> FALSE] :
        k \in 0..MaxIter, tol \in Tolerances}

LeagueChangeChoices == {{}, {"A"}}

Init ==
    /\ pc = "Optimize"
    /\ \E matches \in Archives, options \in OptionChoices,
          leagueChangeTeams \in LeagueChangeChoices :
           solver = NewMLESolver(matches, options, leagueChangeTeams)
    /\ params = Nil
    /\ iter = 0
    /\ prevLogLikelihood = QZero
    /\ optOut = None
    /\ steps = 0
    /\ llTrace = <<>>
    /\ PayoffIdle /\ SeasonIdle /\ MarketsIdle /\ RunIdle /\ OrchIdle

\* Optimize up to the loop: the initial parameters and log-likelihood
OptimizeStart ==
    /\ pc = "Optimize"
    /\ ~IsNil(solver.options.SimParams)
    /\ params' = initialParams(solver)
    /\ prevLogLikelihood' = CalculateLogLikelihood(solver, params')
    /\ iter' = 0
    /\ steps' = 0
    /\ llTrace' = <<prevLogLikelihood'>>
    /\ pc' = "OptimizeLoop"
    /\ UNCHANGED <<solver, optOut, payoffVars, seasonVars, marketVars, runVars, orchVars>>

\* Optimize on a solver whose options hold no SimParams: the read of
\* simParams.HomeAdvantage dereferences a nil pointer and the run panics
OptimizePanic ==
    /\ pc = "Optimize"
    /\ IsNil(solver.options.SimParams)
    /\ pc' = "OptimizePanic"
    /\ UNCHANGED <<solverVars, payoffVars, seasonVars, marketVars, runVars, orchVars>>

\* a return that reports the loop index instead of the step count
convergedParams_LoopIndex(p, currentLogLikelihood, it) ==
    [p EXCEPT !.LogLikelihood = currentLogLikelihood,
              !.Iterations = it,
              !.Converged = TRUE]

\* the parameters Optimize returns when the convergence test succeeds
convergedParams(p, currentLogLikelihood, it) ==
    [p EXCEPT !.LogLikelihood = currentLogLikelihood,
              !.Iterations = it + 1,
              !.Converged = TRUE]

\* the parameters Optimize returns when the loop runs out
maxIterationsParams(s, p) ==
    [p EXCEPT !.LogLikelihood = CalculateLogLikelihood(s, p),
              !.Iterations = s.options.SimParams.MaxIterations,
              !.Converged = FALSE]

\* one pass of the loop body "for iter := 0; iter < MaxIterations; iter++"
OptimizeStep ==
    /\ pc = "OptimizeLoop"
    /\ iter < solver.options.SimParams.MaxIterations
    /\ \E simParams \in {solver.options.SimParams} :
       \E stepped \in {updateRatings(solver, params, simParams.BaseLearningRate)} :
       \E currentLogLikelihood \in {CalculateLogLikelihood(solver, stepped)} :
           /\ steps' = steps + 1
           /\ llTrace' = Append(llTrace, currentLogLikelihood)
           /\ IF convergedAt(iter, currentLogLikelihood, prevLogLikelihood,
                             simParams.Tolerance)
              THEN /\ params' = convergedParams(stepped, currentLogLikelihood, iter)
                   /\ optOut' = [params |-> params', err |-> ""]
                   /\ pc' = "OptimizeReturned"
                   /\ UNCHANGED <<iter, prevLogLikelihood>>
              ELSE /\ params' = stepped
                   /\ prevLogLikelihood' = currentLogLikelihood
                   /\ iter' = iter + 1
                   /\ UNCHANGED <<pc, optOut>>
    /\ UNCHANGED <<solver, payoffVars, seasonVars, marketVars, runVars, orchVars>>

\* "Maximum iterations reached"
OptimizeMaxIterations ==
    /\ pc = "OptimizeLoop"
    /\ ~(iter < solver.options.SimParams.MaxIterations)
    /\ params' = maxIterationsParams(solver, params)
    /\ optOut' = [params |-> params', err |-> ""]
    /\ pc' = "OptimizeReturned"
    /\ UNCHANGED <<solver, iter, prevLogLikelihood, steps, llTrace,
                   payoffVars, seasonVars, marketVars, runVars, orchVars>>

Next == OptimizeStart \/ OptimizeStep \/ OptimizeMaxIterations

Spec == Init /\ [][Next]_vars

\* The control flow of Optimize on pc and steps alone: every step of Next is
\* a step of OptimizeControl, and OptimizeControl can be taken exactly when
\* Optimize has not returned
OptimizeControl ==
    \/ pc = "Optimize" /\ pc' = "OptimizeLoop" /\ steps' = steps
    \/ /\ pc = "OptimizeLoop"
       /\ pc' \in {"OptimizeLoop", "OptimizeReturned"}
       /\ steps' \in {steps, steps + 1}

\* Optimize is a sequential loop without blocking calls: it keeps running
\* until it returns
SpecFair == Spec /\ WF_<<pc, steps>>(OptimizeControl)

----------------------------------------------------------------------------
(* Claims about Optimize *)

AttackSum == SumOver(solver.teamNames, params.AttackRatings)
DefenseSum == SumOver(solver.teamNames, params.DefenseRatings)

\* C1: after every gradient step of Optimize and in the parameters it
\* returns, the attack ratings of the archive's teams sum to 0 and so do the
\* defense ratings, for every archive with at least one team
C1_ZeroSum ==
    (/\ pc \in {"OptimizeLoop", "OptimizeReturned"}
     /\ steps >= 1 \/ pc = "OptimizeReturned"
     /\ solver.teamNames # {})
        => AttackSum = QZero /\ DefenseSum = QZero

\* Optimize returned after two or more steps on a three-team archive with
\* ratings that moved away from 0
C1_Witness ==
    /\ pc = "OptimizeReturned"
    /\ steps >= 2
    /\ Cardinality(solver.teamNames) = 3
    /\ \E t \in solver.teamNames :
          params.AttackRatings[t] # QZero /\ params.DefenseRatings[t] # QZero

\* step k met the tolerance test: |L_k - L_(k-1)| < tolerance, where
\* llTrace[1] is L_0
MetTolerance(k) ==
    QLt(QAbs(QSub(llTrace[k + 1], llTrace[k])), solver.options.SimParams.Tolerance)

\* C2: Optimize stops at the first step k >= 1 with |L_k - L_(k-1)| <
\* tolerance and then reports Converged = true and Iterations = k: once a
\* step has met the test, no further step is taken and that is the result
C2_StopsAtFirstTolerance ==
    pc \in {"OptimizeLoop", "OptimizeReturned"} =>
        \A k \in 1..steps :
            MetTolerance(k) =>
                /\ pc = "OptimizeReturned"
                /\ steps = k
                /\ params.Converged
                /\ params.Iterations = k

\* the first step met the tolerance test and Optimize went on to a second
C2_FirstStepNotTested ==
    /\ pc \in {"OptimizeLoop", "OptimizeReturned"}
    /\ steps >= 2
    /\ MetTolerance(1)

C3_Returned ==
    pc = "OptimizeReturned" =>
        /\ optOut.err = ""
        /\ params.Iterations = steps
        /\ (\A k \in 1..steps : ~MetTolerance(k)) =>
               /\ ~params.Converged
               /\ params.Iterations = solver.options.SimParams.MaxIterations

C3_Bounded ==
    pc \in {"OptimizeLoop", "OptimizeReturned"} =>
        steps <= solver.options.SimParams.MaxIterations

\* C3: for every archive and every max_iterations >= 0 Optimize returns,
\* after at most max_iterations gradient steps and with a nil error; if no
\* step met the tolerance test it returns Converged = false and Iterations =
\* max_iterations, and Iterations is always the number of steps performed
C3_Terminates ==
    /\ [](C3_Bounded /\ C3_Returned)
    /\ <>(pc = "OptimizeReturned")

\* Optimize used up max_iterations = MaxIter steps without meeting the test
C3_Witness ==
    /\ pc = "OptimizeReturned"
    /\ steps = MaxIter
    /\ \A k \in 1..steps : ~MetTolerance(k)
    /\ ~params.Converged

\* Optimize returned Converged = true
C3_WitnessConverged ==
    /\ pc = "OptimizeReturned"
    /\ params.Converged
    /\ steps >= 2

----------------------------------------------------------------------------
(* RunSimulation (specification SpecRun).  A request is a record           *)
(* [HistoricalData, LeagueChangeTeams, Handicaps, Options]; Handicaps is a *)
(* function from team names to integers.  The match odds of the result     *)
(* are left out: they are computed after the optimisation and change       *)
(* neither the parameters nor the error.                                   *)

MinMatches == 100
MinTeams == 10

ExtractTeams(matches) == TeamsOf(matches)

\* a validation that also turns away archives of exactly MinMatches matches
validateRequest_OffByOne(req) ==
    IF Len(req.HistoricalData) = 0 THEN "historical data is required"
    ELSE IF Len(req.HistoricalData) <= MinMatches THEN "insufficient historical data"
    ELSE IF Cardinality(ExtractTeams(req.HistoricalData)) < MinTeams
    THEN "insufficient teams"
    ELSE IF \E teamName \in DOMAIN req.Handicaps :
                teamName \notin ExtractTeams(req.HistoricalData)
    THEN "handicaps contains unknown team"
    ELSE ""

\* validateRequest: the error it returns ("" for nil)
validateRequest(req) ==
    IF Len(req.HistoricalData) = 0 THEN "historical data is required"
    ELSE IF Len(req.HistoricalData) < MinMatches THEN "insufficient historical data"
    ELSE IF Cardinality(ExtractTeams(req.HistoricalData)) < MinTeams
    THEN "insufficient teams"
    ELSE IF \E teamName \in DOMAIN req.Handicaps :
                teamName \notin ExtractTeams(req.HistoricalData)
    THEN "handicaps contains unknown team"
    ELSE ""

\* MLEOptions{} and DefaultMLEOptions()
ZeroMLEOptions == [SimParams |-> Nil, Debug |-> FALSE]

DefaultSimParams ==
    [HomeAdvantage |-> Q(3, 10),
     BaseLearningRate |-> Q(1, 1000),
     LeagueChangeLearningRate |-> QInt(2),
     TimeDecayBase |-> Q(17, 20),
     TimeDecayPower |-> Q(3, 2),
     MaxIterations |-> 200,
     Tolerance |-> Q(1, 1000000),
     SimulationPaths |-> 5000,
     GoalSimulationBound |-> 5,
     GoalDifferenceEffect |-> Q(1, 10)]

DefaultMLEOptions == [SimParams |-> DefaultSimParams, Debug |-> FALSE]

\* "Apply defaults if not provided"
withDefaults(options) ==
    IF options = ZeroMLEOptions THEN DefaultMLEOptions ELSE options

IsNone(x) == "none" \in DOMAIN x

TeamNames ==
    <<"T01", "T02", "T03", "T04", "T05", "T06", "T07", "T08", "T09", "T10", "T11">>

\* the date of the i-th match of an archive: three digits, in Go's string
\* order as the numbers are
DigitOf(d) == CHOOSE c \in Digits : DigitVal(c) = d
DateCode(i) == <<DigitOf(i \div 100), DigitOf((i \div 10) % 10), DigitOf(i % 10)>>

\* An archive of n matches among the first k teams, played in rounds of k
\* matches in which every team is at home once and away once; the home team
\* scores 2 in the first 3 rounds and 1 afterwards, the away team 1
BuildArchive(n, k) ==
    [i \in 1..n |->
        LET r == (i - 1) \div k
            j == (i - 1) % k
        IN  Match(DateCode(i), Season2425, "ENG1",
                  TeamNames[j + 1],
                  TeamNames[((j + 1 + (r % (k - 1))) % k) + 1],
                  IF r < 3 THEN 2 ELSE 1, 1)]

ArchiveSizes == {0, 1, MinMatches - 1, MinMatches, MinMatches + 1}
TeamCounts == {MinTeams - 1, MinTeams, MinTeams + 1}

HandicapChoices ==
    {<<>>,
     [t \in {"T01"} |-> 3],
     [t \in {"T11"} |-> 3],
     [t \in {"T01", "ZZ"} |-> IF t = "T01" THEN 3 ELSE -2]}

RunOptionChoices ==
    {ZeroMLEOptions, [SimParams |-> Nil, Debug |-> TRUE]}
        \cup {[SimParams |-> SimParams(Q(1, 2), k, Q(1, 100)), Debug |-> FALSE] :
                 k \in {0, 1}}

\* the default options run 200 iterations: they are given with the archives
\* whose rounds are complete, on which the ratings do not move
RunInputs ==
    {[n |-> n, k |-> k, options |-> o] :
        n \in ArchiveSizes, k \in TeamCounts, o \in RunOptionChoices}

InitRun ==
    /\ pc = "RunSimulation"
    /\ \E in \in RunInputs, handicaps \in HandicapChoices :
          /\ in.options = ZeroMLEOptions => in.n % in.k = 0
          /\ request = [HistoricalData |-> BuildArchive(in.n, in.k),
                        LeagueChangeTeams |-> {},
                        Handicaps |-> handicaps,
                        Options |-> in.options]
    /\ runOut = None
    /\ PayoffIdle /\ SeasonIdle /\ MarketsIdle /\ SolverIdle /\ OrchIdle

\* RunSimulation up to the call of solver.Optimize
RunSimulationValidate ==
    /\ pc = "RunSimulation"
    /\ \E err \in {validateRequest(request)} :
          IF err # ""
          THEN /\ runOut' = [result |-> Nil, err |-> err]
               /\ pc' = "RunSimulationReturned"
               /\ UNCHANGED <<request, solver>>
          ELSE /\ request' = [request EXCEPT !.Options = withDefaults(@)]
               /\ solver' = NewMLESolver(request'.HistoricalData, request'.Options,
                                         request'.LeagueChangeTeams)
               /\ pc' = "Optimize"
               /\ UNCHANGED runOut
    /\ UNCHANGED <<params, iter, prevLogLikelihood, optOut, steps, llTrace,
                   payoffVars, seasonVars, marketVars, orchVars>>

\* a Team of the result
TeamOf(p, teamName) ==
    [Name |-> teamName, Points |-> 0, GoalDifference |-> 0, Played |-> 0,
     AttackRating |-> p.AttackRatings[teamName],
     DefenseRating |-> p.DefenseRatings[teamName],
     LambdaHome |-> Exp(QAdd(p.AttackRatings[teamName], p.HomeAdvantage)),
     LambdaAway |-> Exp(p.AttackRatings[teamName]),
     ExpectedSeasonPoints |-> QZero]

\* RunSimulation from the return of solver.Optimize on
RunSimulationFinish ==
    /\ pc = "OptimizeReturned"
    /\ ~IsNone(request)
    /\ IF optOut.err # ""
       THEN runOut' = [result |-> Nil, err |-> optOut.err]
       ELSE runOut' =
                [result |->
                    [Teams |-> [t \in DOMAIN params.AttackRatings |-> TeamOf(params, t)],
                     MLEParams |-> params,
                     MatchesProcessed |-> Len(request.HistoricalData)],
                 err |-> ""]
    /\ pc' = "RunSimulationReturned"
    /\ UNCHANGED <<request, solverVars, payoffVars, seasonVars, marketVars, orchVars>>

NextRun ==
    \/ RunSimulationValidate
    \/ OptimizeStart
    \/ OptimizePanic
    \/ OptimizeStep
    \/ OptimizeMaxIterations
    \/ RunSimulationFinish

SpecRun == InitRun /\ [][NextRun]_vars

----------------------------------------------------------------------------
(* Claims about RunSimulation *)

\* the teams that are a home or away team of some match of the request
ObservedTeams == {request.HistoricalData[i].HomeTeam : i \in DOMAIN request.HistoricalData}
                    \cup {request.HistoricalData[i].AwayTeam :
                              i \in DOMAIN request.HistoricalData}

UnknownHandicap == \E key \in DOMAIN request.Handicaps : key \notin ObservedTeams

RunRejected ==
    /\ pc = "RunSimulationReturned"
    /\ runOut.result = Nil
    /\ runOut.err # ""
    /\ steps = 0
    /\ params = Nil

\* C4: RunSimulation takes no gradient step and returns (nil, error) when the
\* archive has fewer than 100 matches or fewer than 10 distinct teams or a
\* handicap key is not a team of the archive; with exactly 100 matches,
\* exactly 10 teams and only observed handicap keys the validation passes
C4_ValidationGate ==
    pc # "RunSimulation" =>
        /\ (\/ Len(request.HistoricalData) < 100
            \/ Cardinality(ObservedTeams) < 10
            \/ UnknownHandicap) => RunRejected
        /\ (/\ Len(request.HistoricalData) = 100
            /\ Cardinality(ObservedTeams) = 10
            /\ ~UnknownHandicap) => ~RunRejected /\ ~IsNone(solver)

\* a request of exactly 100 matches and 10 teams with an observed handicap
\* key went through the optimisation and returned a result
C4_Witness ==
    /\ pc = "RunSimulationReturned"
    /\ Len(request.HistoricalData) = 100
    /\ Cardinality(ObservedTeams) = 10
    /\ DOMAIN request.Handicaps = {"T01"}
    /\ runOut.err = ""
    /\ steps >= 1

\* a request of 100 matches and 10 teams was turned away for its handicap key
C4_WitnessRejected ==
    /\ RunRejected
    /\ Len(request.HistoricalData) = 100
    /\ Cardinality(ObservedTeams) = 10
    /\ UnknownHandicap

----------------------------------------------------------------------------
(* events.go: what RunMLESolver reads off the archive.  A Go map that is   *)
(* only looked up or ranged over to build another map is a TLA+ function   *)
(* or a set of keys.                                                       *)

ExtractLeagues(matches) == {matches[i].League : i \in 1..Len(matches)}

ExtractSeasons(matches) == {matches[i].Season : i \in 1..Len(matches)}

ExtractGlobalEntities(matches) ==
    [Teams |-> ExtractTeams(matches),
     Leagues |-> ExtractLeagues(matches),
     Seasons |-> ExtractSeasons(matches)]

FindLatestSeason(events) == findLatestSeason(events)

GroupEventsByLeague(events) ==
    [league \in ExtractLeagues(events) |->
        SelectSeq(events, LAMBDA event : event.League = league)]

GetTeamsInSeason(events, season) ==
    {events[i].HomeTeam : i \in {j \in 1..Len(events) : events[j].Season = season}}
        \cup {events[i].AwayTeam : i \in {j \in 1..Len(events) : events[j].Season = season}}

\* teamSeasonLeague[team]: the league of the last event of the team in each
\* of its seasons
teamSeasonLeague(events, team) ==
    [season \in {events[i].Season : i \in {j \in 1..Len(events) : Plays(events[j], team)}} |->
        LET last == CHOOSE i \in 1..Len(events) :
                        /\ Plays(events[i], team) /\ events[i].Season = season
                        /\ \A j \in (i + 1)..Len(events) :
                               ~(Plays(events[j], team) /\ events[j].Season = season)
        IN  events[last].League]

\* a league change between two seasons of the team that are next to each
\* other in ascending order
changedLeague(seasonLeagues) ==
    \E s1, s2 \in DOMAIN seasonLeagues :
        /\ StrLess(s1, s2)
        /\ ~\E s3 \in DOMAIN seasonLeagues : StrLess(s1, s3) /\ StrLess(s3, s2)
        /\ seasonLeagues[s1] # seasonLeagues[s2]

DetectLeagueChangeTeams(events) ==
    {team \in ExtractTeams(events) : changedLeague(teamSeasonLeague(events, team))}

\* a league-groups map: nil, or a function from league codes to team lists
lenGroups(leagueGroups) ==
    IF IsNil(leagueGroups) THEN 0 ELSE Cardinality(DOMAIN leagueGroups)

\* leagueGroups[league], the nil slice for a missing key or a nil map
groupOf(leagueGroups, league) ==
    IF IsNil(leagueGroups) THEN <<>>
    ELSE IF league \in DOMAIN leagueGroups THEN leagueGroups[league]
    ELSE <<>>

\* ValidateLeagueGroups: "" for nil, else the non-empty list of errors
ValidateLeagueGroups(leagueGroups, globalEntities) ==
    IF IsNil(leagueGroups) THEN ""
    ELSE IF \E leagueKey \in DOMAIN leagueGroups :
                \/ leagueKey \notin globalEntities.Leagues
                \/ \E i \in 1..Len(leagueGroups[leagueKey]) :
                       leagueGroups[leagueKey][i] \notin globalEntities.Teams
    THEN "validation errors"
    ELSE ""

\* the names of S in ascending order; the teams of the model's archives are
\* those of TeamNames, which lists them in ascending order
sortedNames(S) == SelectSeq(TeamNames, LAMBDA t : t \in S)

\* GetCurrentTeams, after the interface description: the authoritative list of
\* a league is leagueGroups[league] if supplied, else the teams of the
\* league's matches of the latest season
GetCurrentTeams(leagueGroups, eventsByLeague, latestSeason) ==
    [league \in DOMAIN eventsByLeague |->
        IF Len(groupOf(leagueGroups, league)) > 0
        THEN leagueGroups[league]
        ELSE sortedNames(GetTeamsInSeason(eventsByLeague[league], latestSeason))]

\* sort.Slice(events, Date <): the events in ascending order of date.  Events
\* of one date keep their order here; the archives of the model have no two
\* events of one date
dateRank(events) ==
    [i \in 1..Len(events) |->
        1 + Cardinality({j \in 1..Len(events) :
                \/ StrLess(events[j].Date, events[i].Date)
                \/ events[j].Date = events[i].Date /\ j < i})]

sortByRank(events, rank) ==
    [k \in 1..Len(events) |-> events[CHOOSE i \in 1..Len(events) : rank[i] = k]]

sortByDate(events) ==
    CHOOSE sorted \in {sortByRank(events, rank) : rank \in {dateRank(events)}} : TRUE

----------------------------------------------------------------------------
(* simulator.go, team_metrics.go: the league table, the remaining fixtures *)
(* and the simulation.  An Event is [Name, Date, Score]; its name          *)
(* "Home vs Away" is the pair the code splits it into.                     *)

RECURSIVE IntSumRange(_, _, _)
IntSumRange(ks, lo, hi) ==
    IF lo > hi THEN 0
    ELSE IF lo = hi THEN ks[lo]
    ELSE IntSumRange(ks, lo, (lo + hi) \div 2)
             + IntSumRange(ks, ((lo + hi) \div 2) + 1, hi)

IntSum(ks) == IntSumRange(ks, 1, Len(ks))

\* the orders in which a sort by a strict comparison can leave the elements
\* of S: before holds the pairs <<x, y>> with less(x, y); elements that the
\* comparison does not tell apart come out in any order
RECURSIVE SortedOrders(_, _)
SortedOrders(S, before) ==
    IF S = {} THEN {<<>>}
    ELSE UNION {{<<b>> \o rest : rest \in SortedOrders(S \ {b}, before)} :
                   b \in {x \in S : \A y \in S : <<y, x>> \notin before}}

parseEventName(eventName) == eventName

\* the Event of a match
eventOf(match) ==
    [Name |-> <<match.HomeTeam, match.AwayTeam>>,
     Date |-> match.Date,
     Score |-> <<match.HomeGoals, match.AwayGoals>>]

convertMatchResultsToEvents(matches, season) ==
    LET kept == SelectSeq(matches, LAMBDA m : season = <<>> \/ m.Season = season)
    IN  [i \in 1..Len(kept) |-> eventOf(kept[i])]

\* strings.HasPrefix
HasPrefix(s, prefix) ==
    Len(s) >= Len(prefix) /\ SubSeq(s, 1, Len(prefix)) = prefix

\* the characters of the league codes of the model
LeagueChars(league) ==
    CASE league = "ENG1" -> <<"E", "N", "G", "1">>
      [] league = "ENG2" -> <<"E", "N", "G", "2">>
      [] league = "SCO1" -> <<"S", "C", "O", "1">>
      [] league = "SCO" -> <<"S", "C", "O">>
      [] league = "SC" -> <<"S", "C">>
      [] league = "ESCO" -> <<"E", "S", "C", "O">>
      [] league = "sco1" -> <<"s", "c", "o", "1">>
      [] league = "" -> <<>>

getRounds(league) == IF HasPrefix(LeagueChars(league), <<"S", "C", "O">>) THEN 2 ELSE 1

\* the handicap of the interface description: points added to a team's row
handicapOf(handicaps, name) ==
    IF name \in DOMAIN handicaps THEN handicaps[name] ELSE 0

\* what one event adds to the row of the team
eventPoints(event, name) ==
    (IF parseEventName(event.Name)[1] = name
     THEN (IF event.Score[1] > event.Score[2] THEN 3
           ELSE IF event.Score[1] = event.Score[2] THEN 1 ELSE 0)
     ELSE 0)
    + (IF parseEventName(event.Name)[2] = name
       THEN (IF event.Score[1] < event.Score[2] THEN 3
             ELSE IF event.Score[1] = event.Score[2] THEN 1 ELSE 0)
       ELSE 0)

eventGoalDifference(event, name) ==
    (IF parseEventName(event.Name)[1] = name THEN event.Score[1] - event.Score[2] ELSE 0)
    + (IF parseEventName(event.Name)[2] = name THEN event.Score[2] - event.Score[1] ELSE 0)

eventPlayed(event, name) ==
    (IF parseEventName(event.Name)[1] = name THEN 1 ELSE 0)
    + (IF parseEventName(event.Name)[2] = name THEN 1 ELSE 0)

\* calcLeagueTable before its sort: the row of every listed team and of every
\* team of an event with a score
calcLeagueTable(teamNames, events, handicaps) ==
    [name \in ListSet(teamNames)
                \cup {parseEventName(events[i].Name)[1] :
                         i \in {j \in 1..Len(events) : Len(events[j].Score) = 2}}
                \cup {parseEventName(events[i].Name)[2] :
                         i \in {j \in 1..Len(events) : Len(events[j].Score) = 2}} |->
        [Name |-> name,
         Points |-> IntSum([i \in 1..Len(events) |->
                               IF Len(events[i].Score) = 2
                               THEN eventPoints(events[i], name) ELSE 0])
                        + handicapOf(handicaps, name),
         GoalDifference |-> IntSum([i \in 1..Len(events) |->
                               IF Len(events[i].Score) = 2
                               THEN eventGoalDifference(events[i], name) ELSE 0]),
         Played |-> IntSum([i \in 1..Len(events) |->
                               IF Len(events[i].Score) = 2
                               THEN eventPlayed(events[i], name) ELSE 0])]]

\* the comparison of calcLeagueTable's sort: points, then goal difference
tableBefore(rows) ==
    {xy \in (DOMAIN rows) \X (DOMAIN rows) :
        \/ rows[xy[1]].Points > rows[xy[2]].Points
        \/ /\ rows[xy[1]].Points = rows[xy[2]].Points
           /\ rows[xy[1]].GoalDifference > rows[xy[2]].GoalDifference}

RECURSIVE ConcatRange(_, _, _)
ConcatRange(lists, lo, hi) ==
    IF lo > hi THEN <<>>
    ELSE IF lo = hi THEN lists[lo]
    ELSE ConcatRange(lists, lo, (lo + hi) \div 2)
             \o ConcatRange(lists, ((lo + hi) \div 2) + 1, hi)

\* a list of fixtures that leaves the played events out of account
calcRemainingFixtures_IgnorePlayed(teamNames, events, rounds) ==
    LET k == Len(teamNames)
        copies(i, j) ==
            IF i = j THEN <<>> ELSE Repeat(<<teamNames[i], teamNames[j]>>, rounds)
    IN  ConcatRange([p \in 1..(k * k) |-> copies(((p - 1) \div k) + 1, ((p - 1) % k) + 1)],
                    1, k * k)

\* calcRemainingFixtures: for every ordered pair of list positions i # j the
\* fixture as often as it is short of rounds, home teams in list order
calcRemainingFixtures(teamNames, events, rounds) ==
    LET k == Len(teamNames)
        playedCounts ==
            [fixtureName \in ListSet(teamNames) \X ListSet(teamNames) |->
                Cardinality({e \in 1..Len(events) :
                                Len(events[e].Score) = 2 /\ events[e].Name = fixtureName})]
        copies(i, j) ==
            IF i = j \/ playedCounts[<<teamNames[i], teamNames[j]>>] >= rounds THEN <<>>
            ELSE Repeat(<<teamNames[i], teamNames[j]>>,
                        rounds - playedCounts[<<teamNames[i], teamNames[j]>>])
    IN  ConcatRange([p \in 1..(k * k) |-> copies(((p - 1) \div k) + 1, ((p - 1) % k) + 1)],
                    1, k * k)

\* a SimPoints is [NPaths, TeamNames, Points]; Points[i][path]
newSimPointsFromLeagueTable(leagueTable, nPaths, goalDifferenceEffect) ==
    [NPaths |-> nPaths,
     TeamNames |-> [i \in 1..Len(leagueTable) |-> leagueTable[i].Name],
     Points |-> [i \in 1..Len(leagueTable) |->
                    [j \in 1..nPaths |->
                        QAdd(QInt(leagueTable[i].Points),
                             QMul(goalDifferenceEffect,
                                  QInt(leagueTable[i].GoalDifference)))]]]

\* getTeamIndex, counting from 1, with 0 for the code's -1
getTeamIndex(sp, teamName) ==
    IF \E i \in 1..Len(sp.TeamNames) : sp.TeamNames[i] = teamName
    THEN CHOOSE i \in 1..Len(sp.TeamNames) :
             /\ sp.TeamNames[i] = teamName
             /\ \A j \in 1..(i - 1) : sp.TeamNames[j] # teamName
    ELSE 0

\* the lambda from which PoissonSample uses the normal approximation
NormalFrom == 12

\* PoissonSample: the values it can return.  Below NormalFrom the loop
\* "for p > L" is not entered when L = math.Exp(-lambda) is 1, and k - 1 is
\* -1; otherwise every count has a positive probability, and the model
\* draws up to MaxGoals
PoissonSample(lambda) ==
    IF QLt(lambda, QZero) THEN {0}
    ELSE IF QLt(lambda, QInt(NormalFrom)) /\ ~QLt(Exp(QNeg(lambda)), QOne) THEN {-1}
    ELSE 0..MaxGoals

simLambdaHome(p, homeTeam, awayTeam) ==
    Exp(QAdd(QSub(Rating(p.AttackRatings, homeTeam), Rating(p.DefenseRatings, awayTeam)),
             p.HomeAdvantage))

simLambdaAway(p, homeTeam, awayTeam) ==
    Exp(QSub(Rating(p.AttackRatings, awayTeam), Rating(p.DefenseRatings, homeTeam)))

\* the goals simulate can draw for one fixture: goals[path] = <<home, away>>
fixtureDraws(p, fixture, nPaths) ==
    [1..nPaths -> PoissonSample(simLambdaHome(p, fixture[1], fixture[2]))
                      \X PoissonSample(simLambdaAway(p, fixture[1], fixture[2]))]

matchPoints(own, other) == IF own > other THEN 3 ELSE IF own = other THEN 1 ELSE 0

\* what simulate adds to one entry of Points
credit(i, homeIdx, awayIdx, g, goalDifferenceEffect) ==
    QAdd(IF i = homeIdx
         THEN QAdd(QInt(matchPoints(g[1], g[2])),
                   QMul(goalDifferenceEffect, QInt(g[1] - g[2])))
         ELSE QZero,
         IF i = awayIdx
         THEN QAdd(QInt(matchPoints(g[2], g[1])),
                   QMul(goalDifferenceEffect, QInt(g[2] - g[1])))
         ELSE QZero)

\* SimPoints.simulate with the goals it drew
simulate(sp, homeTeam, awayTeam, goals, simParams) ==
    IF getTeamIndex(sp, homeTeam) = 0 \/ getTeamIndex(sp, awayTeam) = 0 THEN sp
    ELSE [sp EXCEPT !.Points =
             [i \in 1..Len(sp.TeamNames) |->
                 [path \in 1..sp.NPaths |->
                     QAdd(sp.Points[i][path],
                          credit(i, getTeamIndex(sp, homeTeam), getTeamIndex(sp, awayTeam),
                                 goals[path], simParams.GoalDifferenceEffect))]]]

\* the loop over the remaining fixtures, from fixture f on
RECURSIVE simulateFrom(_, _, _, _, _)
simulateFrom(sp, fixtures, goals, simParams, f) ==
    IF f > Len(fixtures) THEN sp
    ELSE simulateFrom(simulate(sp, parseEventName(fixtures[f])[1],
                               parseEventName(fixtures[f])[2], goals[f], simParams),
                      fixtures, goals, simParams, f + 1)

\* "Calculate expected total season points"
expectedPoints(sp) ==
    [name \in ListSet(sp.TeamNames) |->
        QDiv(SumSeq(sp.Points[getTeamIndex(sp, name)]), QInt(sp.NPaths))]

\* the current-season events of a league, as calculateLeagueSeasonPointsWithSim
\* and RunMLESolver both filter and convert them
currentSeasonEvents(allEvents, league, currentSeason) ==
    convertMatchResultsToEvents(
        SelectSeq(allEvents,
                  LAMBDA event : event.League = league /\ event.Season = currentSeason),
        currentSeason)

----------------------------------------------------------------------------
(* marks.go and SimPoints.positionProbabilities *)

parseFloat(s) == IF ParseFloatOk(s) THEN ParseFloatVal(s) ELSE QZero

parseInt(s) == IF AtoiOk(s) THEN AtoiVal(s) ELSE 0

\* a part that fills one position whatever its count
payoffPart_OnePosition(part) ==
    LET multiplierParts == Split(part, "x")
    IN  IF Contains(part, "x")
        THEN IF Len(multiplierParts) = 2 /\ parseInt(multiplierParts[1]) > 0
             THEN <<parseFloat(multiplierParts[2])>>
             ELSE <<>>
        ELSE <<parseFloat(part)>>

\* the positions one part of the payoff string fills
payoffPart(part) ==
    LET multiplierParts == Split(part, "x")
    IN  IF Contains(part, "x")
        THEN IF Len(multiplierParts) = 2
             THEN IF parseInt(multiplierParts[1]) > 0
                  THEN Repeat(parseFloat(multiplierParts[2]), parseInt(multiplierParts[1]))
                  ELSE <<>>
             ELSE <<>>
        ELSE <<parseFloat(part)>>

parsePayoffStructure(payoffStr) ==
    LET parts == Split(payoffStr, "|")
    IN  ConcatRange([i \in 1..Len(parts) |-> payoffPart(parts[i])], 1, Len(parts))

\* a selection that ranks the whole league whatever the list
selectedIndices_WholeLeague(sp, teamNames) ==
    [i \in 1..Len(sp.TeamNames) |-> i]

\* positionProbabilities: the indices of the names found in sp, in the order
\* of teamNames
selectedIndices(sp, teamNames) ==
    LET found == SelectSeq(teamNames, LAMBDA name : getTeamIndex(sp, name) > 0)
    IN  [i \in 1..Len(found) |-> getTeamIndex(sp, found[i])]

\* the comparison of the sort of one path: more points first
pathBefore(sp, selected, path) ==
    {xy \in (1..Len(selected)) \X (1..Len(selected)) :
        QLt(sp.Points[selected[xy[2]]][path], sp.Points[selected[xy[1]]][path])}

\* the outcomes of the sorts of all paths: order[path] lists the selected
\* slots from first place down
positionOrders(sp, selected) ==
    LET pathOrders ==
            [path \in 1..sp.NPaths |->
                SortedOrders(1..Len(selected), pathBefore(sp, selected, path))]
    IN  {order \in [1..sp.NPaths -> UNION {pathOrders[path] : path \in 1..sp.NPaths}] :
            \A path \in 1..sp.NPaths : order[path] \in pathOrders[path]}

\* the slot of selected that holds index idx
selectedSlot(selected, idx) ==
    CHOOSE j \in 1..Len(selected) :
        selected[j] = idx /\ \A h \in 1..(j - 1) : selected[h] # idx

\* probabilities that count the paths without dividing by their number
positionProbabilities_Counts(sp, teamNames, order) ==
    LET selected == selectedIndices(sp, teamNames)
        slotOf == [name \in {teamNames[i] : i \in {j \in 1..Len(teamNames) :
                                                    getTeamIndex(sp, teamNames[j]) > 0}} |->
                      selectedSlot(selected, getTeamIndex(sp, name))]
    IN  [name \in DOMAIN slotOf |->
            [pos \in 1..Len(selected) |->
                QInt(Cardinality({path \in 1..sp.NPaths :
                                     order[path][pos] = slotOf[name]}))]]

\* positionProbabilities(teamNames) for a non-nil list, given the outcome of
\* its sorts: name -> probabilities of position 0, 1, ...
positionProbabilities(sp, teamNames, order) ==
    LET selected == selectedIndices(sp, teamNames)
        slotOf == [name \in {teamNames[i] : i \in {j \in 1..Len(teamNames) :
                                                    getTeamIndex(sp, teamNames[j]) > 0}} |->
                      selectedSlot(selected, getTeamIndex(sp, name))]
    IN  [name \in DOMAIN slotOf |->
            [pos \in 1..Len(selected) |->
                Q(Cardinality({path \in 1..sp.NPaths : order[path][pos] = slotOf[name]}),
                  sp.NPaths)]]

\* the cache key: the sorted names joined, that is the names with their
\* numbers of occurrences
cacheKey(teamNames) ==
    [name \in ListSet(teamNames) |->
        Cardinality({i \in 1..Len(teamNames) : teamNames[i] = name})]

Min(a, b) == IF a < b THEN a ELSE b

\* the marks of one market: the teams of sp that the market lists and that
\* have probabilities
teamMarks(sp, market, marketPositionProbs) ==
    LET payoffParts == parsePayoffStructure(market.Payoff)
    IN  [teamName \in {name \in ListSet(sp.TeamNames) :
                          Contains(market.Teams, name)
                              /\ name \in DOMAIN marketPositionProbs} |->
            SumSeq([position \in 1..Min(Len(marketPositionProbs[teamName]),
                                         Len(payoffParts)) |->
                       QMul(marketPositionProbs[teamName][position],
                            payoffParts[position])])]

leagueMarketsOf(ms, league) == SelectSeq(ms, LAMBDA market : market.League = league)

\* the team list for which the probabilities of a key were computed: that of
\* the first market of the league with the key
firstTeamsOf(leagueMarkets, key) ==
    leagueMarkets[CHOOSE i \in 1..Len(leagueMarkets) :
                      /\ cacheKey(leagueMarkets[i].Teams) = key
                      /\ \A j \in 1..(i - 1) : cacheKey(leagueMarkets[j].Teams) # key].Teams

\* the outcomes of the sorts behind every cache entry of a league
cacheOrders(sp, leagueMarkets) ==
    LET keys == {cacheKey(leagueMarkets[i].Teams) : i \in 1..Len(leagueMarkets)}
        ordersOf(key) ==
            positionOrders(sp, selectedIndices(sp, firstTeamsOf(leagueMarkets, key)))
    IN  {orders \in [keys -> UNION {ordersOf(key) : key \in keys}] :
            \A key \in keys : orders[key] \in ordersOf(key)}

\* calculateMarkValues, given the outcomes of the sorts: market name -> marks
calculateMarkValues(sp, ms, league, orders) ==
    LET leagueMarkets == leagueMarketsOf(ms, league)
    IN  [name \in {leagueMarkets[i].Name : i \in 1..Len(leagueMarkets)} |->
            LET market ==
                    leagueMarkets[CHOOSE i \in 1..Len(leagueMarkets) :
                                      /\ leagueMarkets[i].Name = name
                                      /\ \A j \in (i + 1)..Len(leagueMarkets) :
                                             leagueMarkets[j].Name # name]
            IN  teamMarks(sp, market,
                          positionProbabilities(
                              sp, firstTeamsOf(leagueMarkets, cacheKey(market.Teams)),
                              orders[cacheKey(market.Teams)]))]

----------------------------------------------------------------------------
(* RunMLESolver (specification SpecSolver).  call holds the arguments      *)
(* events, options and handicaps (markets is the variable of that name),   *)
(* the league groups the event processor loaded from core-data, and the    *)
(* locals latestSeason and effectiveLatestSeason.  The order of the teams  *)
(* of a league that the code takes from the iteration of a map             *)
(* (leagueTeams) only orders the list of remaining fixtures; the model     *)
(* lists them in ascending order.                                          *)

\* the markets step: validation and initialisation of a non-empty list
prepareMarkets_IgnoreError(ms, teams) ==
    IF Len(ms) > 0
    THEN [validateAndInitializeMarkets(ms, teams) EXCEPT !.err = ""]
    ELSE [markets |-> ms, err |-> "", accepted |-> 0]

prepareMarkets(ms, teams) ==
    IF Len(ms) > 0
    THEN validateAndInitializeMarkets(ms, teams)
    ELSE [markets |-> ms, err |-> "", accepted |-> 0]

\* the effective latest season: empty when league groups are specified
effectiveLatestSeasonOf(leagueGroups, latestSeason) ==
    IF lenGroups(leagueGroups) > 0 THEN <<>> ELSE latestSeason

\* "Use league groups if available, otherwise fall back to latest season teams"
leagueTargetTeams(leagueGroups, eventsByLeague, league, latestSeason) ==
    IF ~IsNil(leagueGroups) /\ Len(groupOf(leagueGroups, league)) > 0
    THEN ListSet(leagueGroups[league])
    ELSE IF league \in DOMAIN eventsByLeague
    THEN GetTeamsInSeason(eventsByLeague[league], latestSeason)
    ELSE {}

\* "Filter teams for this league and collect team names"
leagueTeamsOf(mlResult, targetTeams) ==
    sortedNames({teamName \in DOMAIN mlResult.Teams : teamName \in targetTeams})

\* "Create unified Team objects with all data", before the sort
unifiedTeams(mlResult, rows, expected) ==
    [name \in {n \in DOMAIN rows : n \in DOMAIN mlResult.Teams} |->
        [mlResult.Teams[name] EXCEPT
            !.Points = rows[name].Points,
            !.GoalDifference = rows[name].GoalDifference,
            !.Played = rows[name].Played,
            !.ExpectedSeasonPoints =
                IF name \in DOMAIN expected THEN expected[name] ELSE QZero]]

\* the comparison of the final sort: more expected season points first
expectedBefore(teams) ==
    {xy \in (DOMAIN teams) \X (DOMAIN teams) :
        QLt(teams[xy[2]].ExpectedSeasonPoints, teams[xy[1]].ExpectedSeasonPoints)}

\* the ladder archive: the fixtures of BuildArchive, won 1-0 by the team that
\* comes first in TeamNames
LadderArchive(n, k) ==
    [i \in 1..n |->
        LET r == (i - 1) \div k
            j == (i - 1) % k
            away == (j + 1 + (r % (k - 1))) % k
        IN  Match(DateCode(i), Season2425, "ENG1", TeamNames[j + 1], TeamNames[away + 1],
                  IF j < away THEN 1 ELSE 0, IF j < away THEN 0 ELSE 1)]

\* the first two matches of an archive, one after the other, the wrong way round
SwapFirst(archive) ==
    [i \in 1..Len(archive) |->
        IF i = 1 THEN archive[2] ELSE IF i = 2 THEN archive[1] ELSE archive[i]]

SolverArchive(kind) ==
    CASE kind = "none" -> <<>>
      [] kind = "short" -> LadderArchive(MinMatches - 1, MinTeams + 1)
      [] kind = "even" -> BuildArchive(MinMatches, MinTeams)
      [] kind = "open" -> SwapFirst(LadderArchive(MinMatches + 9, MinTeams + 1))
      [] kind = "two" ->
            Append(LadderArchive(MinMatches + 9, MinTeams + 1),
                   Match(DateCode(MinMatches + 10), Season2425, "ENG2", "T01", "T02", 2, 0))

Str1x10x0 == <<"1", "|", "1", "0", "x", "0">>
Str1x9x0 == <<"1", "|", "9", "x", "0">>

SolverMarketPool ==
    {Market("m", "ENG1", Str1x10x0, <<>>, <<>>),
     Market("m", "ENG1", Str10, <<"T11", "T10">>, <<>>),
     Market("m", "ENG1", Str10, <<>>, <<>>),
     Market("m", "ENG1", Str1x9x0, <<>>, <<"T01">>),
     Market("m", "ENG1", Str10, <<"T10">>, <<"T11">>),
     Market("m", "ENG2", Str10, <<>>, <<>>)}

\* what LoadLeagueGroups can leave in the processor: nil after an error, the
\* empty map without team files, or the lists of the files
LeagueGroupsOf(kind) ==
    CASE kind = "nil" -> Nil
      [] kind = "empty" -> <<>>
      [] kind = "listed" -> [l \in {"ENG1"} |-> <<"T10", "T11">>]
      [] kind = "unknown" -> [l \in {"ENG1"} |-> <<"T10", "ZZ">>]

SolverOptions(maxIterations, simulationPaths) ==
    [SimParams |-> [SimParams(Q(1, 64), maxIterations, Q(1, 100)) EXCEPT
                       !.SimulationPaths = simulationPaths],
     Debug |-> FALSE]

\* options that name no SimParams and ask for the debug output
NilDebugOptions == [SimParams |-> Nil, Debug |-> TRUE]

SolverOptionChoices ==
    {ZeroMLEOptions, NilDebugOptions, SolverOptions(0, 1), SolverOptions(1, 2)}

SolverHandicapChoices == {<<>>, [t \in {"T11"} |-> 1]}

\* the calls of the model: the default options run 200 iterations and are
\* given with the even archive; two paths, handicaps, the nil map and the
\* second league are each tried with the open archive
SolverCalls ==
    {in \in [archive : {"none", "short", "even", "open", "two"},
             options : SolverOptionChoices,
             leagueGroups : {"nil", "empty", "listed", "unknown"},
             handicaps : SolverHandicapChoices] :
        /\ in.archive = "even" <=> in.options = ZeroMLEOptions
        /\ in.archive = "even" => in.leagueGroups = "empty" /\ in.handicaps = <<>>
        /\ in.archive \in {"none", "short", "two"} =>
               in.options = SolverOptions(0, 1) /\ in.handicaps = <<>>
        /\ in.archive = "two" => in.leagueGroups = "empty"
        /\ in.options = NilDebugOptions =>
               in.archive = "open" /\ in.leagueGroups = "empty" /\ in.handicaps = <<>>
        /\ in.leagueGroups # "empty" => in.options # SolverOptions(1, 2)
        /\ in.handicaps # <<>> => in.leagueGroups = "empty"}

InitSolver ==
    /\ pc = "RunMLESolver"
    /\ \E in \in SolverCalls :
           call = [events |-> SolverArchive(in.archive),
                   options |-> in.options,
                   handicaps |-> in.handicaps,
                   leagueGroups |-> LeagueGroupsOf(in.leagueGroups),
                   latestSeason |-> <<>>,
                   effectiveLatestSeason |-> <<>>]
    /\ \E n \in 0..MaxMarkets :
          \E f \in [1..n -> SolverMarketPool] : markets = MarketList(f)
    /\ currentTeams = <<>> /\ marketErr = "" /\ marketsAccepted = 0
    /\ leaguesLeft = {} /\ seasonResult = None /\ result = None /\ solverOut = None
    /\ PayoffIdle /\ SeasonIdle /\ SolverIdle /\ RunIdle

\* RunMLESolver up to the call of RunSimulation
RunMLESolverPrepare ==
    /\ pc = "RunMLESolver"
    /\ IF Len(call.events) = 0
       THEN /\ solverOut' = [result |-> Nil, err |-> "no events data provided"]
            /\ pc' = "RunMLESolverReturned"
            /\ UNCHANGED <<call, result, request, marketVars>>
       ELSE IF ValidateLeagueGroups(call.leagueGroups,
                                    ExtractGlobalEntities(call.events)) # ""
       THEN /\ solverOut' = [result |-> Nil, err |-> "league groups validation failed"]
            /\ pc' = "RunMLESolverReturned"
            /\ UNCHANGED <<call, result, request, marketVars>>
       ELSE \E latestSeason \in {FindLatestSeason(call.events)} :
            \E teams \in {GetCurrentTeams(call.leagueGroups,
                                          GroupEventsByLeague(call.events),
                                          latestSeason)} :
            \E r \in {prepareMarkets(markets, teams)} :
               /\ currentTeams' = teams
               /\ markets' = r.markets
               /\ marketErr' = r.err
               /\ marketsAccepted' = r.accepted
               /\ IF r.err # ""
                  THEN /\ solverOut' = [result |-> Nil, err |-> "market validation failed"]
                       /\ pc' = "RunMLESolverReturned"
                       /\ UNCHANGED <<call, result, request>>
                  ELSE \E sorted \in {sortByDate(call.events)} :
                       /\ call' = [call EXCEPT
                                      !.events = sorted,
                                      !.latestSeason = latestSeason,
                                      !.effectiveLatestSeason =
                                          effectiveLatestSeasonOf(call.leagueGroups,
                                                                  latestSeason)]
                       /\ result' = [Leagues |-> <<>>,
                                     Markets |-> r.markets,
                                     MarkValues |-> <<>>,
                                     LatestSeason |-> call'.effectiveLatestSeason,
                                     TotalMatches |-> Len(sorted)]
                       /\ request' = [HistoricalData |-> sorted,
                                      LeagueChangeTeams |->
                                          DetectLeagueChangeTeams(call.events),
                                      Handicaps |-> call.handicaps,
                                      Options |-> call.options]
                       /\ pc' = "RunSimulation"
                       /\ UNCHANGED solverOut
    /\ UNCHANGED <<runOut, leaguesLeft, seasonResult, payoffVars, seasonVars, solverVars>>

\* RunMLESolver on the return of RunSimulation
RunMLESolverSimulated ==
    /\ pc = "RunSimulationReturned"
    /\ ~IsNone(call)
    /\ IF runOut.err # ""
       THEN /\ solverOut' = [result |-> Nil, err |-> "MLE optimization failed"]
            /\ pc' = "RunMLESolverReturned"
            /\ UNCHANGED leaguesLeft
       ELSE /\ leaguesLeft' = ExtractLeagues(call.events)
            /\ pc' = "LeagueLoop"
            /\ UNCHANGED solverOut
    /\ UNCHANGED <<call, seasonResult, result, payoffVars, seasonVars, marketVars, solverVars, runVars>>

\* the loop body for one league up to the return of
\* calculateLeagueSeasonPointsWithSim, which panics on a nil simParams
ProjectLeague ==
    /\ pc = "LeagueLoop"
    /\ IsNone(seasonResult)
    /\ \E league \in leaguesLeft :
          IF IsNil(call.options.SimParams)
          THEN /\ pc' = "Panic"
               /\ UNCHANGED <<seasonResult, remainingFixtures>>
          ELSE \E teamNames \in
                   {leagueTeamsOf(runOut.result,
                                  leagueTargetTeams(call.leagueGroups,
                                                    GroupEventsByLeague(call.events),
                                                    league, call.latestSeason))} :
               \E events \in {currentSeasonEvents(call.events, league,
                                                  call.effectiveLatestSeason)} :
               \E rows \in {calcLeagueTable(teamNames, events, request.Handicaps)} :
               \E tableOrder \in SortedOrders(DOMAIN rows, tableBefore(rows)) :
               \E fixtures \in {calcRemainingFixtures(teamNames, events, getRounds(league))} :
               \E goals \in {g \in [1..Len(fixtures) ->
                                      UNION {fixtureDraws(runOut.result.MLEParams, fixtures[f],
                                                          call.options.SimParams.SimulationPaths) :
                                                f \in 1..Len(fixtures)}] :
                                \A f \in 1..Len(fixtures) :
                                    g[f] \in fixtureDraws(runOut.result.MLEParams, fixtures[f],
                                                          call.options.SimParams.SimulationPaths)} :
               \E sp \in {simulateFrom(
                              newSimPointsFromLeagueTable(
                                  [i \in 1..Len(tableOrder) |-> rows[tableOrder[i]]],
                                  call.options.SimParams.SimulationPaths,
                                  call.options.SimParams.GoalDifferenceEffect),
                              fixtures, goals, call.options.SimParams, 1)} :
                  /\ seasonResult' = [league |-> league,
                                      leagueTeams |-> teamNames,
                                      ExpectedPoints |-> expectedPoints(sp),
                                      SimPoints |-> sp]
                  /\ remainingFixtures' = fixtures
                  /\ pc' = "LeagueLoop"
    /\ UNCHANGED <<call, leaguesLeft, result, solverOut, seasonCall, seasonTable,
                   simPoints, positionCache, sortOrders, goalsDrawn, expectedOut,
                   markValuesOut, timeWeightOut, poisson, detect, dixon, positionCalls,
                   payoffVars, marketVars, solverVars, runVars>>

\* the rest of the loop body: the league's table and its mark values
EvaluateLeague ==
    /\ pc = "LeagueLoop"
    /\ ~IsNone(seasonResult)
    /\ \E league \in {seasonResult.league} :
       \E rows \in {calcLeagueTable(seasonResult.leagueTeams,
                                    currentSeasonEvents(call.events, league,
                                                        call.effectiveLatestSeason),
                                    request.Handicaps)} :
       \E teams \in {unifiedTeams(runOut.result, rows, seasonResult.ExpectedPoints)} :
       \E teamOrder \in SortedOrders(DOMAIN teams, expectedBefore(teams)) :
       \E orders \in cacheOrders(seasonResult.SimPoints, leagueMarketsOf(markets, league)) :
       \E leagueMarkValues \in
              {IF Len(markets) > 0
               THEN calculateMarkValues(seasonResult.SimPoints, markets, league, orders)
               ELSE <<>>} :
          /\ result' = [result EXCEPT
                           !.Leagues =
                               (league :> [i \in 1..Len(teamOrder) |-> teams[teamOrder[i]]])
                                   @@ @,
                           !.MarkValues =
                               IF DOMAIN leagueMarkValues # {}
                               THEN (league :> leagueMarkValues) @@ @
                               ELSE @]
          /\ leaguesLeft' = leaguesLeft \ {league}
    /\ seasonResult' = None
    /\ UNCHANGED <<pc, call, solverOut, payoffVars, seasonVars, marketVars, solverVars, runVars>>

\* the return after the loop
RunMLESolverReturn ==
    /\ pc = "LeagueLoop"
    /\ IsNone(seasonResult)
    /\ leaguesLeft = {}
    /\ solverOut' = [result |-> result, err |-> ""]
    /\ pc' = "RunMLESolverReturned"
    /\ UNCHANGED <<call, leaguesLeft, seasonResult, result,
                   payoffVars, seasonVars, marketVars, solverVars, runVars>>

NextSolver ==
    \/ RunMLESolverPrepare
    \/ RunSimulationValidate
    \/ OptimizeStart
    \/ OptimizePanic
    \/ OptimizeStep
    \/ OptimizeMaxIterations
    \/ RunSimulationFinish
    \/ RunMLESolverSimulated
    \/ ProjectLeague
    \/ EvaluateLeague
    \/ RunMLESolverReturn

SpecSolver == InitSolver /\ [][NextSolver]_vars

----------------------------------------------------------------------------
(* The life of a market in RunMLESolver.                                   *)

\* validateAndInitializeMarkets has filled in the market's team list and payoff
MarketInitialised(i) ==
    /\ Len(markets[i].Teams) > 0
    /\ Len(markets[i].ParsedPayoff) = Len(markets[i].Teams)

\* the result holds the mark values calculateMarkValues gave for the market
MarketEvaluated(i) ==
    /\ ~IsNone(result)
    /\ markets[i].League \in DOMAIN result.MarkValues
    /\ markets[i].Name \in DOMAIN result.MarkValues[markets[i].League]

\* 0 declared, 1 validated and initialised, 2 evaluated
MarketStage(i) ==
    IF MarketEvaluated(i) THEN 2
    ELSE IF i <= marketsAccepted /\ MarketInitialised(i) THEN 1
    ELSE 0

AllMarketsInitialised ==
    /\ marketErr = ""
    /\ \A i \in DOMAIN markets : i <= marketsAccepted /\ MarketInitialised(i)

\* RunSimulation has been called, or something after it has happened
OptimisationEntered ==
    \/ ~IsNone(request) \/ ~IsNone(solver) \/ ~IsNil(params) \/ steps > 0
    \/ ~IsNone(optOut) \/ ~IsNone(runOut)

\* a fixture of some league has been simulated, or was about to be
SimulationEntered ==
    \/ pc \in {"LeagueLoop", "Panic"}
    \/ ~IsNone(seasonResult)
    \/ (~IsNone(result) /\ DOMAIN result.Leagues # {})

MarketRunRejected ==
    /\ pc = "RunMLESolverReturned"
    /\ solverOut = [result |-> Nil, err |-> "market validation failed"]
    /\ ~OptimisationEntered
    /\ ~SimulationEntered
    /\ IsNone(result)

C6_Stages ==
    /\ OptimisationEntered \/ SimulationEntered => AllMarketsInitialised
    /\ SimulationEntered => runOut.err = ""
    /\ marketErr # "" => MarketRunRejected
    /\ \A i \in DOMAIN markets :
          /\ MarketEvaluated(i) =>
                /\ i <= marketsAccepted /\ MarketInitialised(i)
                /\ DOMAIN result.MarkValues[markets[i].League][markets[i].Name]
                       = ListSet(markets[i].Teams)
          /\ (~IsNone(result) /\ markets[i].League \in DOMAIN result.Leagues) =>
                MarketEvaluated(i)
          /\ (pc = "RunMLESolverReturned" /\ solverOut.err = "") => MarketEvaluated(i)

C6_Forward ==
    \A i \in DOMAIN markets :
        /\ MarketStage(i)' >= MarketStage(i)
        /\ MarketStage(i)' <= MarketStage(i) + 1

\* C6: in RunMLESolver a market goes from declared to validated and
\* initialised to evaluated, one stage at a time and never backwards; every
\* market is validated and initialised before RunSimulation is called and
\* before any fixture is simulated; when a market fails validation the run
\* returns a nil result and "market validation failed" without having run
\* the optimisation; and once the loop has gone through a league,
\* calculateMarkValues has given every market of that league a mark for each
\* of its teams, so that a run that returns no error has evaluated every
\* market
C6_MarketLifecycle == []C6_Stages /\ [][C6_Forward]_vars

\* a run with one gradient step returned no error after evaluating two
\* markets, one of them an exclude market
C6_Witness ==
    /\ pc = "RunMLESolverReturned"
    /\ solverOut.err = ""
    /\ steps >= 1
    /\ Len(markets) = 2
    /\ \E i \in DOMAIN markets : Len(markets[i].Exclude) > 0
    /\ \A i \in DOMAIN markets : MarketStage(i) = 2

\* the second market failed validation after the first had been initialised
C6_WitnessRejected ==
    /\ MarketRunRejected
    /\ marketsAccepted = 1
    /\ MarketStage(1) = 1
    /\ MarketStage(2) = 0

----------------------------------------------------------------------------
(* The season projector (specification SpecSeason):                        *)
(* calculateLeagueSeasonPointsWithSim, its loop one fixture at a time, and *)
(* calculateMarkValues on the SimPoints it returns.                        *)

\* an archive late in the season 2425 of ENG1 with the teams A, B, C: two
\* fixtures are left; D played but is no team of the league's list; one match
\* is of another season and one of another league
SeasonEvents ==
    <<Match("2025-01-01", Season2324, "ENG1", "B", "A", 5, 0),
      Match("2025-01-02", Season2425, "ENG2", "A", "B", 0, 3),
      Match("2025-01-03", Season2425, "ENG1", "A", "C", 1, 0),
      Match("2025-01-04", Season2425, "ENG1", "C", "A", 0, 0),
      Match("2025-01-05", Season2425, "ENG1", "B", "C", 13, 0),
      Match("2025-01-06", Season2425, "ENG1", "A", "B", 0, 0),
      Match("2025-01-07", Season2425, "ENG1", "D", "C", 1, 0)>>

SeasonParams ==
    [HomeAdvantage |-> Q(1, 2),
     Rho |-> Q(-1, 10),
     AttackRatings |-> [t \in {"A", "B", "C", "D"} |-> QZero],
     DefenseRatings |-> [t \in {"A", "B", "C", "D"} |-> QZero],
     LogLikelihood |-> QZero,
     Iterations |-> 0,
     Converged |-> FALSE]

SeasonCall(teamNames, allEvents, league, handicaps, nPaths) ==
    [teamNames |-> teamNames,
     params |-> SeasonParams,
     simParams |-> [SimParams(Q(1, 2), 0, Q(1, 100)) EXCEPT !.SimulationPaths = nPaths],
     allEvents |-> allEvents,
     league |-> league,
     currentSeason |-> Season2425,
     handicaps |-> handicaps]

SeasonCalls ==
    {SeasonCall(<<"A", "B">>, <<>>, "ENG1", <<>>, 2),
     SeasonCall(<<"A", "B">>, <<>>, "SCO1", <<>>, 1),
     SeasonCall(<<"A", "B", "C">>, SeasonEvents, "ENG1", <<>>, 1),
     SeasonCall(<<"A", "B", "C">>, SeasonEvents, "ENG1", <<>>, 2),
     SeasonCall(<<"C", "A", "B">>, SeasonEvents, "ENG1", [t \in {"B"} |-> 1], 1)}

Str31 == <<"3", "|", "1">>
Str310 == <<"3", "|", "1", "|", "0">>

\* the market lists handed to calculateMarkValues, before their validation:
\* winner markets over the league, over a subset and over the rest of a
\* subset, two markets of one name, a team listed twice, a market of another
\* league and a market that pays the first two places
SeasonMarketLists(league, k) ==
    {<<Market("m1", league, IF k = 2 THEN Str10 ELSE Str120, <<>>, <<>>)>>,
     <<Market("m1", league, Str1, <<"B">>, <<>>)>>,
     <<Market("m1", league, Str10, <<"A", "B">>, <<>>),
       Market("m2", league, Str10, <<"B", "A">>, <<>>)>>,
     <<Market("m1", league, IF k = 2 THEN Str1 ELSE Str10, <<>>, <<"A">>),
       Market("m2", league, IF k = 2 THEN Str31 ELSE Str310, <<>>, <<>>)>>,
     <<Market("m1", league, IF k = 2 THEN Str10 ELSE Str120, <<>>, <<>>),
       Market("m1", league, Str1, <<"B">>, <<>>)>>,
     <<Market("m1", league, Str10, <<"A", "A">>, <<>>)>>,
     <<Market("m1", "ENG2", Str10, <<>>, <<>>),
       Market("m2", league, IF k = 2 THEN Str10 ELSE Str120, <<>>, <<>>)>>}

\* the current teams the lists are validated against
SeasonCurrentTeams(league, teamNames) ==
    [l \in {league, "ENG2"} |-> IF l = league THEN teamNames ELSE <<"A", "B">>]

\* the validated and initialised lists
ValidatedMarketLists(league, teamNames) ==
    {validateAndInitializeMarkets(ms, SeasonCurrentTeams(league, teamNames)).markets :
        ms \in {raw \in SeasonMarketLists(league, Len(teamNames)) :
                   validateAndInitializeMarkets(
                       raw, SeasonCurrentTeams(league, teamNames)).err = ""}}

InitSeason ==
    /\ pc = "calculateLeagueSeasonPointsWithSim"
    /\ seasonCall \in SeasonCalls
    /\ seasonTable = <<>> /\ remainingFixtures = <<>> /\ simPoints = None
    /\ positionCache = <<>> /\ sortOrders = <<>> /\ goalsDrawn = <<>>
    /\ expectedOut = None /\ markValuesOut = None /\ timeWeightOut = None
    /\ poisson = None /\ detect = None /\ dixon = None /\ positionCalls = <<>>
    /\ PayoffIdle /\ MarketsIdle /\ SolverIdle /\ RunIdle /\ OrchIdle

\* calculateLeagueSeasonPointsWithSim up to its loop
SeasonStart ==
    /\ pc = "calculateLeagueSeasonPointsWithSim"
    /\ \E events \in {currentSeasonEvents(seasonCall.allEvents, seasonCall.league,
                                          seasonCall.currentSeason)} :
       \E rows \in {calcLeagueTable(seasonCall.teamNames, events, seasonCall.handicaps)} :
       \E tableOrder \in SortedOrders(DOMAIN rows, tableBefore(rows)) :
       \E table \in {[i \in 1..Len(tableOrder) |-> rows[tableOrder[i]]]} :
          /\ seasonTable' = table
          /\ remainingFixtures' =
                 calcRemainingFixtures(seasonCall.teamNames, events,
                                       getRounds(seasonCall.league))
          /\ simPoints' =
                 newSimPointsFromLeagueTable(table, seasonCall.simParams.SimulationPaths,
                                             seasonCall.simParams.GoalDifferenceEffect)
    /\ pc' = "SimulateLoop"
    /\ UNCHANGED <<seasonCall, positionCache, sortOrders, goalsDrawn, expectedOut,
                   markValuesOut, timeWeightOut, poisson, detect, dixon, positionCalls,
                   payoffVars, marketVars, solverVars, runVars, orchVars>>

\* one pass of "for _, fixtureName := range remainingFixtures"
SimulateFixture ==
    /\ pc = "SimulateLoop"
    /\ Len(goalsDrawn) < Len(remainingFixtures)
    /\ \E fixture \in {parseEventName(remainingFixtures[Len(goalsDrawn) + 1])} :
       \E goals \in fixtureDraws(seasonCall.params, fixture, simPoints.NPaths) :
          /\ simPoints' =
                 IF fixture[1] # "" /\ fixture[2] # ""
                 THEN simulate(simPoints, fixture[1], fixture[2], goals,
                               seasonCall.simParams)
                 ELSE simPoints
          /\ goalsDrawn' = Append(goalsDrawn, goals)
    /\ UNCHANGED <<pc, seasonCall, seasonTable, remainingFixtures, positionCache,
                   sortOrders, expectedOut, markValuesOut, timeWeightOut,
                   poisson, detect, dixon, positionCalls,
                   payoffVars, marketVars, solverVars, runVars, orchVars>>

\* calculateLeagueSeasonPointsWithSim after its loop
SeasonFinish ==
    /\ pc = "SimulateLoop"
    /\ Len(goalsDrawn) = Len(remainingFixtures)
    /\ expectedOut' = expectedPoints(simPoints)
    /\ pc' = "SeasonReturned"
    /\ UNCHANGED <<seasonCall, seasonTable, remainingFixtures, simPoints, positionCache,
                   sortOrders, goalsDrawn, markValuesOut, timeWeightOut,
                   poisson, detect, dixon, positionCalls,
                   payoffVars, marketVars, solverVars, runVars, orchVars>>

\* the entries calculateMarkValues leaves in the cache: one for every key with
\* a team of the SimPoints
cacheEntries(sp, leagueMarkets, orders) ==
    [key \in {k \in DOMAIN orders :
                 Len(selectedIndices(sp, firstTeamsOf(leagueMarkets, k))) > 0} |->
        positionProbabilities(sp, firstTeamsOf(leagueMarkets, key), orders[key])]

\* calculateMarkValues on the returned SimPoints and a validated market list
CalculateMarkValues ==
    /\ pc = "SeasonReturned"
    /\ \E ms \in ValidatedMarketLists(seasonCall.league, seasonCall.teamNames) :
       \E orders \in cacheOrders(simPoints, leagueMarketsOf(ms, seasonCall.league)) :
          /\ markets' = ms
          /\ sortOrders' = orders
          /\ positionCache' =
                 cacheEntries(simPoints, leagueMarketsOf(ms, seasonCall.league), orders)
          /\ markValuesOut' = calculateMarkValues(simPoints, ms, seasonCall.league, orders)
    /\ pc' = "MarksReturned"
    /\ UNCHANGED <<seasonCall, seasonTable, remainingFixtures, simPoints, goalsDrawn,
                   expectedOut, timeWeightOut,
                   poisson, detect, dixon, positionCalls,
                   currentTeams, marketErr, marketsAccepted,
                   payoffVars, solverVars, runVars, orchVars>>

NextSeason == SeasonStart \/ SimulateFixture \/ SeasonFinish \/ CalculateMarkValues

SpecSeason == InitSeason /\ [][NextSeason]_vars

----------------------------------------------------------------------------
(* The marks of a market, stated from the points of the paths.             *)

\* the first slot of the list teams that holds the name
SlotOf(teams, name) ==
    CHOOSE j \in 1..Len(teams) : teams[j] = name /\ \A h \in 1..(j - 1) : teams[h] # name

\* the points of the team in slot j of the list, in a path
SlotPoints(sp, teams, j, path) == sp.Points[getTeamIndex(sp, teams[j])][path]

\* the positions, from 0, that a ranking of the list by points can give the
\* slot in a path: behind the slots with more points, before those with fewer
PositionsOf(sp, teams, j, path) ==
    LET above == {h \in 1..Len(teams) :
                     QLt(SlotPoints(sp, teams, j, path), SlotPoints(sp, teams, h, path))}
        level == {h \in 1..Len(teams) :
                     h # j /\ SlotPoints(sp, teams, h, path) = SlotPoints(sp, teams, j, path)}
    IN  Cardinality(above)..(Cardinality(above) + Cardinality(level))

\* the payoff of a position, from 0
PayoffAt(payoff, pos) == IF pos + 1 <= Len(payoff) THEN payoff[pos + 1] ELSE QZero

\* the values the dot product of the team's position probabilities with the
\* payoff vector can have
DotProducts(sp, market, name) ==
    {SumSeq([path \in 1..sp.NPaths |->
                QDiv(PayoffAt(market.ParsedPayoff, f[path]), QInt(sp.NPaths))]) :
        f \in {g \in [1..sp.NPaths -> 0..(Len(market.Teams) - 1)] :
                  \A path \in 1..sp.NPaths :
                      g[path] \in PositionsOf(sp, market.Teams,
                                              SlotOf(market.Teams, name), path)}}

\* the returned map holds the marks of the market under its name
MarksAsStated(market) ==
    /\ market.Name \in DOMAIN markValuesOut
    /\ DOMAIN markValuesOut[market.Name] = ListSet(market.Teams)
    /\ \A name \in ListSet(market.Teams) :
           markValuesOut[market.Name][name] \in DotProducts(simPoints, market, name)

\* no later market of the league has the name of market i
LastOfName(i) ==
    \A j \in (i + 1)..Len(markets) :
        ~(markets[j].League = markets[i].League /\ markets[j].Name = markets[i].Name)

\* C11: once calculateMarkValues has returned, every validated market of the
\* league has under its name a map whose keys are exactly the teams of its
\* list and whose values are the dot products of the teams' position
\* probabilities over that list with the market's payoff vector
C11_MarksOfEveryMarket ==
    pc = "MarksReturned" =>
        \A i \in DOMAIN markets :
            markets[i].League = seasonCall.league => MarksAsStated(markets[i])

\* the same for the markets whose name no later market of the league has
C11_MarksOfLastOfName ==
    pc = "MarksReturned" =>
        \A i \in DOMAIN markets :
            (markets[i].League = seasonCall.league /\ LastOfName(i))
                => MarksAsStated(markets[i])

\* two markets of one name: the map under the name has the teams of the second
C11_NameCollision ==
    /\ pc = "MarksReturned"
    /\ Len(markets) = 2
    /\ markets[1].Name = markets[2].Name
    /\ markets[1].League = seasonCall.league /\ markets[2].League = seasonCall.league
    /\ Len(markets[1].Teams) = 3
    /\ DOMAIN markValuesOut[markets[1].Name] = {"B"}

----------------------------------------------------------------------------
(* The position probabilities of a team subset.                            *)

\* the list of the key has every name once and every name is in the SimPoints
DistinctKnown(sp, key) ==
    \A name \in DOMAIN key : key[name] = 1 /\ getTeamIndex(sp, name) > 0

\* a winner market: 1 for the first place, 0 for every other
IsWinnerPayoff(payoff) ==
    /\ Len(payoff) >= 1
    /\ payoff[1] = QOne
    /\ \A pos \in 2..Len(payoff) : payoff[pos] = QZero

\* the sum of the marks returned under the name
MarkSum(name) == SumOver(DOMAIN markValuesOut[name], markValuesOut[name])

\* every path gives the positions 0..k-1 to the k teams of the key, each once
BijectivePositions(key) ==
    \A path \in 1..simPoints.NPaths :
        /\ Len(sortOrders[key][path]) = Cardinality(DOMAIN key)
        /\ ListSet(sortOrders[key][path]) = 1..Cardinality(DOMAIN key)

\* C12: for a subset of distinct names of the SimPoints every path assigns the
\* positions bijectively, every team's probabilities sum to 1, the
\* probabilities of every position sum to 1 over the teams, and the marks of a
\* winner market over the whole league sum to 1
C12_PositionsSumToOne ==
    pc = "MarksReturned" =>
        /\ \A key \in DOMAIN positionCache :
               DistinctKnown(simPoints, key) =>
                   /\ BijectivePositions(key)
                   /\ DOMAIN positionCache[key] = DOMAIN key
                   /\ \A name \in DOMAIN key :
                          /\ Len(positionCache[key][name]) = Cardinality(DOMAIN key)
                          /\ SumSeq(positionCache[key][name]) = QOne
                   /\ \A pos \in 1..Cardinality(DOMAIN key) :
                          SumOver(DOMAIN key,
                                  [name \in DOMAIN key |-> positionCache[key][name][pos]])
                              = QOne
        /\ \A i \in DOMAIN markets :
               (/\ markets[i].League = seasonCall.league
                /\ LastOfName(i)
                /\ IsWinnerPayoff(markets[i].ParsedPayoff)
                /\ ListSet(markets[i].Teams) = ListSet(seasonCall.teamNames)
                /\ DistinctKnown(simPoints, cacheKey(markets[i].Teams)))
                   => MarkSum(markets[i].Name) = QOne

\* a winner market over a league of three teams on two paths that end in
\* different orders
C12_Witness ==
    /\ pc = "MarksReturned"
    /\ simPoints.NPaths = 2
    /\ Len(markets) = 1
    /\ IsWinnerPayoff(markets[1].ParsedPayoff)
    /\ markets[1].Teams = <<"A", "B", "C">>
    /\ sortOrders[cacheKey(markets[1].Teams)][1] # sortOrders[cacheKey(markets[1].Teams)][2]
    /\ MarkSum(markets[1].Name) = QOne

----------------------------------------------------------------------------
(* Winner markets over an include subset.                                  *)

\* the teams with the most points of a path among the teams of the set
TopTeams(sp, names, path) ==
    {name \in names :
        \A other \in names :
            ~QLt(sp.Points[getTeamIndex(sp, name)][path],
                 sp.Points[getTeamIndex(sp, other)][path])}

\* the winner markets over an include list of distinct teams
IsIncludeWinner(i) ==
    /\ markets[i].League = seasonCall.league
    /\ LastOfName(i)
    /\ Len(markets[i].Include) > 0
    /\ IsWinnerPayoff(markets[i].ParsedPayoff)
    /\ DistinctKnown(simPoints, cacheKey(markets[i].Teams))

\* the number of paths in which the condition holds, as a fraction of all
PathFraction(sp, paths) == Q(Cardinality(paths), sp.NPaths)

\* C13 as stated: the marks of a winner market over an include subset sum to
\* the fraction of the paths in which the champion of the whole league is a
\* team of the subset (with level teams at the top, any of them may be the
\* champion)
C13_SumIsChampionInSubset ==
    pc = "MarksReturned" =>
        \A i \in DOMAIN markets :
            IsIncludeWinner(i) =>
                /\ QLe(PathFraction(simPoints,
                           {path \in 1..simPoints.NPaths :
                               TopTeams(simPoints, ListSet(simPoints.TeamNames), path)
                                   \subseteq ListSet(markets[i].Teams)}),
                       MarkSum(markets[i].Name))
                /\ QLe(MarkSum(markets[i].Name),
                       PathFraction(simPoints,
                           {path \in 1..simPoints.NPaths :
                               TopTeams(simPoints, ListSet(simPoints.TeamNames), path)
                                   \cap ListSet(markets[i].Teams) # {}}))

\* C13, amended: the marks of a winner market over an include subset sum to 1,
\* and the mark of a team is the fraction of the paths in which it is first
\* among the teams of the subset (with level teams at the top of the subset,
\* any of them may be first)
C13_SumIsOne ==
    pc = "MarksReturned" =>
        \A i \in DOMAIN markets :
            IsIncludeWinner(i) =>
                /\ MarkSum(markets[i].Name) = QOne
                /\ \A name \in ListSet(markets[i].Teams) :
                       /\ QLe(PathFraction(simPoints,
                                  {path \in 1..simPoints.NPaths :
                                      TopTeams(simPoints, ListSet(markets[i].Teams), path)
                                          = {name}}),
                              markValuesOut[markets[i].Name][name])
                       /\ QLe(markValuesOut[markets[i].Name][name],
                              PathFraction(simPoints,
                                  {path \in 1..simPoints.NPaths :
                                      name \in TopTeams(simPoints,
                                                        ListSet(markets[i].Teams), path)}))

\* the winner market over the subset {B} after a season that B wins in no path
C13_Witness ==
    /\ pc = "MarksReturned"
    /\ Len(markets) = 1
    /\ IsIncludeWinner(1)
    /\ markets[1].Teams = <<"B">>
    /\ simPoints.NPaths = 2
    /\ \A path \in 1..simPoints.NPaths :
           "B" \notin TopTeams(simPoints, ListSet(simPoints.TeamNames), path)
    /\ markValuesOut[markets[1].Name]["B"] = QOne

----------------------------------------------------------------------------
(* The remaining fixtures of a league (specification SpecFixtures): the    *)
(* calls of getRounds and calcRemainingFixtures on a team list and a list  *)
(* of events.  An event without a score has not been played.               *)

MaxEvents == 3

Teams20 ==
    <<"T01", "T02", "T03", "T04", "T05", "T06", "T07", "T08", "T09", "T10",
      "T11", "T12", "T13", "T14", "T15", "T16", "T17", "T18", "T19", "T20">>

Teams12 == SubSeq(Teams20, 1, 12)

FixtureEvent(home, away, score) ==
    [Name |-> <<home, away>>, Date |-> "2025-01-01", Score |-> score]

FixtureEventPool ==
    {FixtureEvent("A", "B", <<1, 0>>),
     FixtureEvent("B", "A", <<2, 2>>),
     FixtureEvent("A", "B", <<>>),
     FixtureEvent("A", "D", <<0, 1>>),
     FixtureEvent("C", "A", <<0, 0>>)}

FixtureTeamLists ==
    {<<>>, <<"A">>, <<"A", "B">>, <<"B", "A">>, <<"A", "B", "C">>}

FixtureLeagues == {"ENG1", "SCO1", "SCO", "SC", "ESCO", "sco1", ""}

InitFixtures ==
    /\ pc = "calcRemainingFixtures"
    /\ \/ \E teamNames \in FixtureTeamLists, league \in FixtureLeagues,
             n \in 0..MaxEvents :
             \E events \in [1..n -> FixtureEventPool] :
                 seasonCall = [teamNames |-> teamNames, league |-> league,
                               events |-> events]
       \/ seasonCall = [teamNames |-> Teams12, league |-> "SCO1", events |-> <<>>]
       \/ seasonCall = [teamNames |-> Teams20, league |-> "ENG1", events |-> <<>>]
    /\ seasonTable = <<>> /\ remainingFixtures = <<>> /\ simPoints = None
    /\ positionCache = <<>> /\ sortOrders = <<>> /\ goalsDrawn = <<>>
    /\ expectedOut = None /\ markValuesOut = None /\ timeWeightOut = None
    /\ poisson = None /\ detect = None /\ dixon = None /\ positionCalls = <<>>
    /\ PayoffIdle /\ MarketsIdle /\ SolverIdle /\ RunIdle /\ OrchIdle

\* "rounds := getRounds(league)" and
\* "remainingFixtures := calcRemainingFixtures(teamNames, events, rounds)"
CalcRemainingFixtures ==
    /\ pc = "calcRemainingFixtures"
    /\ remainingFixtures' =
           calcRemainingFixtures(seasonCall.teamNames, seasonCall.events,
                                 getRounds(seasonCall.league))
    /\ pc' = "calcRemainingFixturesReturned"
    /\ UNCHANGED <<seasonCall, seasonTable, simPoints, positionCache, sortOrders,
                   goalsDrawn, expectedOut, markValuesOut, timeWeightOut,
                   poisson, detect, dixon, positionCalls,
                   payoffVars, marketVars, solverVars, runVars, orchVars>>

NextFixtures == CalcRemainingFixtures

SpecFixtures == InitFixtures /\ [][NextFixtures]_vars

\* the rounds of the league codes of the model as the interface describes them
RoundsStated(league) == IF league \in {"SCO1", "SCO"} THEN 2 ELSE 1

\* c(h, a): the number of played events named "h vs a"
PlayedCount(events, h, a) ==
    Cardinality({e \in 1..Len(events) :
                    Len(events[e].Score) = 2 /\ events[e].Name = <<h, a>>})

\* the number of copies of the fixture in the list
Copies(fixtures, h, a) ==
    Cardinality({f \in 1..Len(fixtures) : fixtures[f] = <<h, a>>})

\* C14: for a list T of distinct teams the returned list holds, for every
\* ordered pair (h, a) of distinct teams of T, max(0, R - c(h, a)) copies of
\* "h vs a" and nothing else, with R = 2 for the league codes that begin with
\* SCO and 1 for the others; without played matches that is 264 fixtures for
\* 12 teams of SCO1 and 380 for 20 teams of ENG1
C14_RemainingFixtures ==
    pc = "calcRemainingFixturesReturned" =>
        /\ \A f \in 1..Len(remainingFixtures) :
               /\ remainingFixtures[f][1] \in ListSet(seasonCall.teamNames)
               /\ remainingFixtures[f][2] \in ListSet(seasonCall.teamNames)
               /\ remainingFixtures[f][1] # remainingFixtures[f][2]
        /\ \A h, a \in ListSet(seasonCall.teamNames) :
               h # a =>
                   Copies(remainingFixtures, h, a) =
                       IF RoundsStated(seasonCall.league)
                              > PlayedCount(seasonCall.events, h, a)
                       THEN RoundsStated(seasonCall.league)
                                - PlayedCount(seasonCall.events, h, a)
                       ELSE 0
        /\ seasonCall.teamNames = Teams12 => Len(remainingFixtures) = 264
        /\ seasonCall.teamNames = Teams20 => Len(remainingFixtures) = 380

\* two rounds of which "A vs B" has been played once, beside an event without
\* a score and an event of a team that is not in the list
C14_Witness ==
    /\ pc = "calcRemainingFixturesReturned"
    /\ seasonCall.league = "SCO1"
    /\ seasonCall.teamNames = <<"A", "B">>
    /\ seasonCall.events = <<FixtureEvent("A", "B", <<1, 0>>),
                             FixtureEvent("A", "B", <<>>),
                             FixtureEvent("A", "D", <<0, 1>>)>>
    /\ remainingFixtures = <<<<"A", "B">>, <<"B", "A">>, <<"B", "A">>>>

\* the league of 20 teams before its first match
C14_WitnessFullSeason ==
    /\ pc = "calcRemainingFixturesReturned"
    /\ seasonCall.teamNames = Teams20
    /\ Len(remainingFixtures) = 380

----------------------------------------------------------------------------
(* The current season of a league when league groups are supplied.         *)

\* the matches of the league in the latest season of the archive
LatestSeasonMatches(league) ==
    SelectSeq(call.events,
              LAMBDA match : match.League = league /\ match.Season = call.latestSeason)

\* how many of the matches involve the team
MatchesOf(matches, team) ==
    Cardinality({i \in 1..Len(matches) : Plays(matches[i], team)})

\* how many of the matches are "h vs a"
Occurrences(matches, h, a) ==
    Cardinality({i \in 1..Len(matches) :
                    matches[i].HomeTeam = h /\ matches[i].AwayTeam = a})

\* C15: with league groups supplied, the table of a league still counts the
\* league's matches of the latest season for every listed team, and the
\* remaining fixtures of every ordered pair of listed teams are the rounds
\* less the pair's matches of the latest season
C15_GroupsKeepCurrentSeason ==
    (~IsNone(call) /\ lenGroups(call.leagueGroups) > 0) =>
        /\ ~IsNone(seasonResult) =>
               \A h, a \in ListSet(seasonResult.leagueTeams) :
                   h # a =>
                       Copies(remainingFixtures, h, a) =
                           IF getRounds(seasonResult.league)
                                  > Occurrences(LatestSeasonMatches(seasonResult.league), h, a)
                           THEN getRounds(seasonResult.league)
                                    - Occurrences(LatestSeasonMatches(seasonResult.league),
                                                  h, a)
                           ELSE 0
        /\ ~IsNone(result) =>
               \A league \in DOMAIN result.Leagues :
                   \A i \in 1..Len(result.Leagues[league]) :
                       result.Leagues[league][i].Name
                               \in ListSet(groupOf(call.leagueGroups, league))
                           => result.Leagues[league][i].Played =
                                  MatchesOf(LatestSeasonMatches(league),
                                            result.Leagues[league][i].Name)

\* a returned run with league groups: every listed team has played in the
\* latest season, and the table shows no match played
C15_EmptyTable ==
    /\ pc = "RunMLESolverReturned"
    /\ solverOut.err = ""
    /\ lenGroups(call.leagueGroups) > 0
    /\ call.effectiveLatestSeason = <<>>
    /\ call.latestSeason = Season2425
    /\ Len(result.Leagues["ENG1"]) = 2
    /\ \A i \in 1..Len(result.Leagues["ENG1"]) :
           /\ result.Leagues["ENG1"][i].Played = 0
           /\ MatchesOf(LatestSeasonMatches("ENG1"), result.Leagues["ENG1"][i].Name) > 0

----------------------------------------------------------------------------
(* The points of the paths, stated from the table and the goals drawn.     *)

\* the fixtures simulated so far
Simulated == 1..Len(goalsDrawn)

\* the fixtures simulated so far that involve the team
FixturesOf(name) ==
    {f \in Simulated : remainingFixtures[f][1] = name \/ remainingFixtures[f][2] = name}

\* the 3/1/0 points of fixture f for the team in the path
FixturePoints(f, name, path) ==
    (IF remainingFixtures[f][1] = name
     THEN matchPoints(goalsDrawn[f][path][1], goalsDrawn[f][path][2]) ELSE 0)
    + (IF remainingFixtures[f][2] = name
       THEN matchPoints(goalsDrawn[f][path][2], goalsDrawn[f][path][1]) ELSE 0)

\* the goal difference of fixture f for the team in the path
FixtureGoalDifference(f, name, path) ==
    (IF remainingFixtures[f][1] = name
     THEN goalsDrawn[f][path][1] - goalsDrawn[f][path][2] ELSE 0)
    + (IF remainingFixtures[f][2] = name
       THEN goalsDrawn[f][path][2] - goalsDrawn[f][path][1] ELSE 0)

\* the row of the team in the table the projection started from
TableRow(name) ==
    seasonTable[CHOOSE i \in 1..Len(seasonTable) : seasonTable[i].Name = name]

\* league points of the team in the path: table points, handicap included,
\* plus 3/1/0 for every simulated fixture
LeaguePoints(name, path) ==
    TableRow(name).Points
    + IntSum([f \in Simulated |-> FixturePoints(f, name, path)])

\* goal difference of the team in the path: the table's plus the simulated
\* fixtures'
LeagueGoalDifference(name, path) ==
    TableRow(name).GoalDifference
    + IntSum([f \in Simulated |-> FixtureGoalDifference(f, name, path)])

\* the value SimPoints holds for the team in the path
StoredPoints(name, path) == simPoints.Points[getTeamIndex(simPoints, name)][path]

\* the goal difference that value carries next to the league points
StoredGoalDifference(name, path) ==
    QDiv(QSub(StoredPoints(name, path), QInt(LeaguePoints(name, path))),
         seasonCall.simParams.GoalDifferenceEffect)

IsInteger(q) == q.d = 1

\* C16: throughout the projection the stored points of every team in every
\* path are a non-negative integer, and the goal difference is an integer of
\* absolute value at most twice the number of fixtures simulated for the team
C16_IntegerPoints ==
    ~IsNone(simPoints) =>
        \A name \in ListSet(simPoints.TeamNames) : \A path \in 1..simPoints.NPaths :
            /\ IsInteger(StoredPoints(name, path))
            /\ QLe(QZero, StoredPoints(name, path))
            /\ IsInteger(StoredGoalDifference(name, path))
            /\ QLe(QAbs(StoredGoalDifference(name, path)),
                   QInt(2 * Cardinality(FixturesOf(name))))

\* what holds of the stored value instead: it is the league points plus the
\* goal-difference effect times the goal difference
C16_CompositePoints ==
    ~IsNone(simPoints) =>
        \A name \in ListSet(simPoints.TeamNames) : \A path \in 1..simPoints.NPaths :
            StoredPoints(name, path) =
                QAdd(QInt(LeaguePoints(name, path)),
                     QMul(seasonCall.simParams.GoalDifferenceEffect,
                          QInt(LeagueGoalDifference(name, path))))

\* a projection with a fixture simulated in which one team holds a value
\* that is not an integer and another a negative one
C16_FractionalAndNegative ==
    /\ ~IsNone(simPoints)
    /\ Len(goalsDrawn) > 0
    /\ \E name \in ListSet(simPoints.TeamNames) : ~IsInteger(StoredPoints(name, 1))
    /\ \E name \in ListSet(simPoints.TeamNames) : QLt(StoredPoints(name, 1), QZero)
----------------------------------------------------------------------------
(* float64: the arithmetic of the entries of SimPoints.Points.  A value is  *)
(* neg, man, exp for (+/-) man * 2^exp with man a list of MantissaBits      *)
(* bits, lowest first and highest 1, or the empty list for zero.  Every     *)
(* operation returns the value nearest to the exact result, ties to even.   *)
(* Exponents are not limited and zero has no sign: the sums of a projection *)
(* neither overflow nor reach the subnormal range.                          *)

MantissaBits == 53

\* the bits of the quotient computed before a constant is rounded
QuotientBitCount == 64

Zeros(k) == IF k <= 0 THEN <<>> ELSE [i \in 1..k |-> 0]

\* a natural number as its bits, lowest first, highest 1
TrimBits(bits) ==
    IF \A i \in 1..Len(bits) : bits[i] = 0 THEN <<>>
    ELSE SubSeq(bits, 1, CHOOSE i \in 1..Len(bits) :
                             bits[i] = 1 /\ \A j \in (i + 1)..Len(bits) : bits[j] = 0)

RECURSIVE BitsOfNat(_)
BitsOfNat(n) == IF n = 0 THEN <<>> ELSE <<n % 2>> \o BitsOfNat(n \div 2)

BitAt(bits, i) == IF i <= Len(bits) THEN bits[i] ELSE 0

\* the bits lo..hi of a + sign * b and the carry out of them, for the carry
\* into bit lo; the carry is -1 for a borrow
RECURSIVE SumBitsRange(_, _, _, _, _, _)
SumBitsRange(a, b, sign, lo, hi, carry) ==
    IF lo = hi
    THEN [bits |-> <<(BitAt(a, lo) + sign * BitAt(b, lo) + carry) % 2>>,
          carry |-> (BitAt(a, lo) + sign * BitAt(b, lo) + carry
                         - ((BitAt(a, lo) + sign * BitAt(b, lo) + carry) % 2)) \div 2]
    ELSE LET low == SumBitsRange(a, b, sign, lo, (lo + hi) \div 2, carry)
             high == SumBitsRange(a, b, sign, ((lo + hi) \div 2) + 1, hi, low.carry)
         IN  [bits |-> low.bits \o high.bits, carry |-> high.carry]

\* a + b
AddBits(a, b) ==
    IF Len(a) = 0 THEN b
    ELSE IF Len(b) = 0 THEN a
    ELSE LET sum == SumBitsRange(a, b, 1, 1, IF Len(a) > Len(b) THEN Len(a) ELSE Len(b), 0)
         IN  IF sum.carry = 1 THEN Append(sum.bits, 1) ELSE sum.bits

\* a - b for a >= b
SubBits(a, b) ==
    IF Len(b) = 0 THEN a ELSE TrimBits(SumBitsRange(a, b, -1, 1, Len(a), 0).bits)

LessBits(a, b) ==
    \/ Len(a) < Len(b)
    \/ /\ Len(a) = Len(b)
       /\ \E i \in 1..Len(a) :
              a[i] < b[i] /\ \A j \in (i + 1)..Len(a) : a[j] = b[j]

ShiftBits(bits, k) == IF Len(bits) = 0 THEN <<>> ELSE Zeros(k) \o bits

\* a times the bits lo..hi of b, each in its place
RECURSIVE MulRange(_, _, _, _)
MulRange(a, b, lo, hi) ==
    IF lo = hi THEN (IF b[lo] = 1 THEN ShiftBits(a, lo - 1) ELSE <<>>)
    ELSE AddBits(MulRange(a, b, lo, (lo + hi) \div 2),
                 MulRange(a, b, ((lo + hi) \div 2) + 1, hi))

\* a * b
MulBits(a, b) == IF Len(a) = 0 \/ Len(b) = 0 THEN <<>> ELSE MulRange(a, b, 1, Len(b))

F64Zero == [neg |-> FALSE, man |-> <<>>, exp |-> 0]

\* the float64 nearest to (+/-) man * 2^exp
Round64(neg, man, exp) ==
    IF Len(man) = 0 THEN F64Zero
    ELSE IF Len(man) <= MantissaBits
    THEN [neg |-> neg,
          man |-> Zeros(MantissaBits - Len(man)) \o man,
          exp |-> exp - (MantissaBits - Len(man))]
    ELSE LET d == Len(man) - MantissaBits
             kept == SubSeq(man, d + 1, Len(man))
             up == /\ man[d] = 1
                   /\ \/ \E i \in 1..(d - 1) : man[i] = 1
                      \/ kept[1] = 1
             rounded == IF up THEN AddBits(kept, <<1>>) ELSE kept
         IN  IF Len(rounded) > MantissaBits
             THEN [neg |-> neg, man |-> SubSeq(rounded, 2, Len(rounded)),
                   exp |-> exp + d + 1]
             ELSE [neg |-> neg, man |-> rounded, exp |-> exp + d]

\* x + y
F64Add(x, y) ==
    IF Len(x.man) = 0 THEN y
    ELSE IF Len(y.man) = 0 THEN x
    ELSE LET e == IF x.exp < y.exp THEN x.exp ELSE y.exp
             ax == ShiftBits(x.man, x.exp - e)
             ay == ShiftBits(y.man, y.exp - e)
         IN  IF x.neg = y.neg THEN Round64(x.neg, AddBits(ax, ay), e)
             ELSE IF ax = ay THEN F64Zero
             ELSE IF LessBits(ax, ay) THEN Round64(y.neg, SubBits(ay, ax), e)
             ELSE Round64(x.neg, SubBits(ax, ay), e)

\* the lowest 1 of a mantissa
LowestOne(man) == CHOOSE i \in 1..Len(man) : man[i] = 1 /\ \A j \in 1..(i - 1) : man[j] = 0

\* x * y
F64Mul(x, y) ==
    IF Len(x.man) = 0 \/ Len(y.man) = 0 THEN F64Zero
    ELSE Round64(x.neg # y.neg,
                 MulBits(SubSeq(x.man, LowestOne(x.man), Len(x.man)),
                         SubSeq(y.man, LowestOne(y.man), Len(y.man))),
                 x.exp + (LowestOne(x.man) - 1) + y.exp + (LowestOne(y.man) - 1))

\* float64(n) of an int
F64FromInt(n) == Round64(n < 0, BitsOfNat(IF n < 0 THEN -n ELSE n), 0)

\* the next count bits of rem / den after the binary point, highest first,
\* and what is left of rem
RECURSIVE QuotientBits(_, _, _)
QuotientBits(rem, den, count) ==
    IF count = 1
    THEN [bits |-> <<(2 * rem) \div den>>, rem |-> (2 * rem) % den]
    ELSE LET high == QuotientBits(rem, den, count \div 2)
             low == QuotientBits(high.rem, den, count - (count \div 2))
         IN  [bits |-> high.bits \o low.bits, rem |-> low.rem]

ReverseBits(bits) == [i \in 1..Len(bits) |-> bits[Len(bits) + 1 - i]]

\* the float64 of the constant n / d, d > 0, as the compiler rounds a literal:
\* the quotient to QuotientBitCount bits after the point and a last bit that
\* is 1 when the quotient goes on
F64FromRatio(n, d) ==
    LET fraction == QuotientBits((IF n < 0 THEN -n ELSE n) % d, d, QuotientBitCount)
    IN  Round64(n < 0,
                TrimBits(<<IF fraction.rem # 0 THEN 1 ELSE 0>>
                             \o ReverseBits(fraction.bits)
                             \o BitsOfNat((IF n < 0 THEN -n ELSE n) \div d)),
                -(QuotientBitCount + 1))

\* x < y
F64Less(x, y) ==
    LET d == F64Add(x, [y EXCEPT !.neg = ~y.neg])
    IN  Len(d.man) > 0 /\ d.neg

----------------------------------------------------------------------------
(* The projection in float64: what SimPoints.Points holds bit for bit.     *)

\* the float64 of a value of the exact model
F64OfQ(q) == F64FromRatio(q.n, q.d)

\* newSimPointsFromLeagueTable with float64 entries
newSimPointsFromLeagueTable64(leagueTable, nPaths, goalDifferenceEffect) ==
    [NPaths |-> nPaths,
     TeamNames |-> [i \in 1..Len(leagueTable) |-> leagueTable[i].Name],
     Points |-> [i \in 1..Len(leagueTable) |->
                    [j \in 1..nPaths |->
                        F64Add(F64FromInt(leagueTable[i].Points),
                               F64Mul(goalDifferenceEffect,
                                      F64FromInt(leagueTable[i].GoalDifference)))]]]

\* "homePoints + simParams.GoalDifferenceEffect*homeGD"
credit64(own, other, goalDifferenceEffect) ==
    F64Add(F64FromInt(matchPoints(own, other)),
           F64Mul(goalDifferenceEffect, F64FromInt(own - other)))

\* SimPoints.simulate with the goals it drew: the home entry is added to
\* first, then the away entry
simulate64(sp, homeTeam, awayTeam, goals, goalDifferenceEffect) ==
    IF getTeamIndex(sp, homeTeam) = 0 \/ getTeamIndex(sp, awayTeam) = 0 THEN sp
    ELSE [sp EXCEPT !.Points =
             [i \in 1..Len(sp.TeamNames) |->
                 [path \in 1..sp.NPaths |->
                     LET home == IF i = getTeamIndex(sp, homeTeam)
                                 THEN F64Add(sp.Points[i][path],
                                             credit64(goals[path][1], goals[path][2],
                                                      goalDifferenceEffect))
                                 ELSE sp.Points[i][path]
                     IN  IF i = getTeamIndex(sp, awayTeam)
                         THEN F64Add(home, credit64(goals[path][2], goals[path][1],
                                                    goalDifferenceEffect))
                         ELSE home]]]

\* the loop over the fixtures, from fixture f on
RECURSIVE simulateFrom64(_, _, _, _, _)
simulateFrom64(sp, fixtures, goals, goalDifferenceEffect, f) ==
    IF f > Len(fixtures) THEN sp
    ELSE simulateFrom64(simulate64(sp, parseEventName(fixtures[f])[1],
                                   parseEventName(fixtures[f])[2], goals[f],
                                   goalDifferenceEffect),
                        fixtures, goals, goalDifferenceEffect, f + 1)

\* the projections followed in float64: a Scottish league of two teams with
\* four fixtures left and an English one with two, each with a result of two
\* other teams in the table
OrderCalls ==
    {SeasonCall(<<"A", "B">>,
                <<Match("2025-01-07", Season2425, "SCO1", "D", "C", 1, 0)>>,
                "SCO1", <<>>, 1),
     SeasonCall(<<"A", "B">>,
                <<Match("2025-01-07", Season2425, "ENG1", "D", "C", 1, 0)>>,
                "ENG1", <<>>, 1)}

InitOrder ==
    /\ pc = "calculateLeagueSeasonPointsWithSim64"
    /\ seasonCall \in OrderCalls
    /\ seasonTable = <<>> /\ remainingFixtures = <<>> /\ simPoints = None
    /\ positionCache = <<>> /\ sortOrders = <<>> /\ goalsDrawn = <<>>
    /\ expectedOut = None /\ markValuesOut = None /\ timeWeightOut = None
    /\ poisson = None /\ detect = None /\ dixon = None /\ positionCalls = <<>>
    /\ PayoffIdle /\ MarketsIdle /\ SolverIdle /\ RunIdle /\ OrchIdle

\* calculateLeagueSeasonPointsWithSim up to its loop
SeasonStart64 ==
    /\ pc = "calculateLeagueSeasonPointsWithSim64"
    /\ \E events \in {currentSeasonEvents(seasonCall.allEvents, seasonCall.league,
                                          seasonCall.currentSeason)} :
       \E rows \in {calcLeagueTable(seasonCall.teamNames, events, seasonCall.handicaps)} :
       \E tableOrder \in SortedOrders(DOMAIN rows, tableBefore(rows)) :
       \E table \in {[i \in 1..Len(tableOrder) |-> rows[tableOrder[i]]]} :
          /\ seasonTable' = table
          /\ remainingFixtures' =
                 calcRemainingFixtures(seasonCall.teamNames, events,
                                       getRounds(seasonCall.league))
          /\ simPoints' =
                 newSimPointsFromLeagueTable64(
                     table, seasonCall.simParams.SimulationPaths,
                     F64OfQ(seasonCall.simParams.GoalDifferenceEffect))
    /\ pc' = "SimulateLoop64"
    /\ UNCHANGED <<seasonCall, positionCache, sortOrders, goalsDrawn, expectedOut,
                   markValuesOut, timeWeightOut, poisson, detect, dixon, positionCalls,
                   payoffVars, marketVars, solverVars, runVars, orchVars>>

\* one pass of "for _, fixtureName := range remainingFixtures"
SimulateFixture64 ==
    /\ pc = "SimulateLoop64"
    /\ Len(goalsDrawn) < Len(remainingFixtures)
    /\ \E fixture \in {parseEventName(remainingFixtures[Len(goalsDrawn) + 1])} :
       \E goals \in fixtureDraws(seasonCall.params, fixture, simPoints.NPaths) :
          /\ simPoints' =
                 IF fixture[1] # "" /\ fixture[2] # ""
                 THEN simulate64(simPoints, fixture[1], fixture[2], goals,
                                 F64OfQ(seasonCall.simParams.GoalDifferenceEffect))
                 ELSE simPoints
          /\ goalsDrawn' = Append(goalsDrawn, goals)
    /\ UNCHANGED <<pc, seasonCall, seasonTable, remainingFixtures, positionCache,
                   sortOrders, expectedOut, markValuesOut, timeWeightOut,
                   poisson, detect, dixon, positionCalls,
                   payoffVars, marketVars, solverVars, runVars, orchVars>>

NextOrder == SeasonStart64 \/ SimulateFixture64

SpecOrder == InitOrder /\ [][NextOrder]_vars

\* the orders in which the fixtures simulated so far can be taken
FixtureOrders ==
    {order \in [Simulated -> Simulated] :
        \A i, j \in Simulated : order[i] = order[j] => i = j}

\* the float64 totals of the fixtures simulated so far, taken in the order
TotalsInOrder64(order) ==
    simulateFrom64(newSimPointsFromLeagueTable64(
                       seasonTable, seasonCall.simParams.SimulationPaths,
                       F64OfQ(seasonCall.simParams.GoalDifferenceEffect)),
                   [i \in Simulated |-> remainingFixtures[order[i]]],
                   [i \in Simulated |-> goalsDrawn[order[i]]],
                   F64OfQ(seasonCall.simParams.GoalDifferenceEffect), 1).Points

\* C17: with the goals of every fixture and path fixed, the fixtures give the
\* same totals of every team and path in whatever order they are applied; a
\* call of simulate changes the rows of its two teams only, and none when
\* one of its teams is not in SimPoints
C17_OrderInvariant ==
    pc = "SimulateLoop64" =>
        /\ \A order \in FixtureOrders : TotalsInOrder64(order) = simPoints.Points
        /\ \A home, away \in ListSet(simPoints.TeamNames) \cup {"Z"} :
           \A goals \in [1..simPoints.NPaths -> (0..MaxGoals) \X (0..MaxGoals)] :
              LET after == simulate64(simPoints, home, away, goals,
                                      F64OfQ(seasonCall.simParams.GoalDifferenceEffect))
              IN  /\ \A i \in 1..Len(simPoints.TeamNames) :
                         simPoints.TeamNames[i] \notin {home, away}
                             => after.Points[i] = simPoints.Points[i]
                  /\ "Z" \in {home, away} => after = simPoints

\* the part of it that holds: the rows a call of simulate changes
C17_OnlyOwnRows ==
    pc = "SimulateLoop64" =>
        \A home, away \in ListSet(simPoints.TeamNames) \cup {"Z"} :
        \A goals \in [1..simPoints.NPaths -> (0..MaxGoals) \X (0..MaxGoals)] :
           LET after == simulate64(simPoints, home, away, goals,
                                   F64OfQ(seasonCall.simParams.GoalDifferenceEffect))
           IN  /\ \A i \in 1..Len(simPoints.TeamNames) :
                      simPoints.TeamNames[i] \notin {home, away}
                          => after.Points[i] = simPoints.Points[i]
               /\ "Z" \in {home, away} => after = simPoints

\* the exact sums do not depend on the order
C17_ExactOrderInvariant ==
    pc = "SimulateLoop" =>
        \A order \in FixtureOrders :
            simulateFrom(newSimPointsFromLeagueTable(
                             seasonTable, seasonCall.simParams.SimulationPaths,
                             seasonCall.simParams.GoalDifferenceEffect),
                         [i \in Simulated |-> remainingFixtures[order[i]]],
                         [i \in Simulated |-> goalsDrawn[order[i]]],
                         seasonCall.simParams, 1).Points = simPoints.Points

\* three fixtures simulated whose float64 totals differ with their order
C17_OrderMatters ==
    /\ pc = "SimulateLoop64"
    /\ Len(goalsDrawn) = 3
    /\ \E order \in FixtureOrders : TotalsInOrder64(order) # simPoints.Points

----------------------------------------------------------------------------
(* The finishing positions of a path.                                       *)

\* the teams ranked for a cache key in a path, from first place down
RankedTeams(key, path) ==
    LET selected ==
            selectedIndices(simPoints,
                            firstTeamsOf(leagueMarketsOf(markets, seasonCall.league), key))
    IN  [p \in 1..Len(sortOrders[key][path]) |->
            simPoints.TeamNames[selected[sortOrders[key][path][p]]]]

\* the team does not belong below the other by points, then goal difference
NotBelow(team, other, path) ==
    \/ LeaguePoints(team, path) > LeaguePoints(other, path)
    \/ /\ LeaguePoints(team, path) = LeaguePoints(other, path)
       /\ LeagueGoalDifference(team, path) >= LeagueGoalDifference(other, path)

\* C18: in every path the ranked teams are in the order of their league
\* points, and teams level on points in the order of their goal difference
C18_PointsThenGoalDifference ==
    pc = "MarksReturned" =>
        \A key \in DOMAIN sortOrders : \A path \in 1..simPoints.NPaths :
            \A p, q \in 1..Len(RankedTeams(key, path)) :
                p < q => NotBelow(RankedTeams(key, path)[p], RankedTeams(key, path)[q], path)

\* what the sort of a path does guarantee: no team is placed above one that
\* holds a greater stored value
C18_StoredValueOrder ==
    pc = "MarksReturned" =>
        \A key \in DOMAIN sortOrders : \A path \in 1..simPoints.NPaths :
            \A p, q \in 1..Len(RankedTeams(key, path)) :
                p < q => QLe(StoredPoints(RankedTeams(key, path)[q], path),
                             StoredPoints(RankedTeams(key, path)[p], path))

\* a path in which a team is placed above a team with more league points
C18_FewerPointsPlacedHigher ==
    /\ pc = "MarksReturned"
    /\ \E key \in DOMAIN sortOrders :
       \E p, q \in 1..Len(RankedTeams(key, 1)) :
          /\ p < q
          /\ LeaguePoints(RankedTeams(key, 1)[p], 1) < LeaguePoints(RankedTeams(key, 1)[q], 1)

----------------------------------------------------------------------------
(* The expected season points.                                              *)

\* the mean over the paths of the league points of the team
MeanLeaguePoints(name) ==
    QDiv(QInt(IntSum([path \in 1..simPoints.NPaths |-> LeaguePoints(name, path)])),
         QInt(simPoints.NPaths))

\* the mean over the paths of the goal difference of the team
MeanGoalDifference(name) ==
    QDiv(QInt(IntSum([path \in 1..simPoints.NPaths |-> LeagueGoalDifference(name, path)])),
         QInt(simPoints.NPaths))

\* C19: the expected season points of a team are its table points plus the
\* mean over the paths of the 3/1/0 points of its simulated fixtures, whatever
\* the goal differences; without a remaining fixture they are its table points
C19_ExpectedLeaguePoints ==
    ~IsNone(expectedOut) =>
        \A name \in DOMAIN expectedOut :
            /\ expectedOut[name] = MeanLeaguePoints(name)
            /\ FixturesOf(name) = {} => expectedOut[name] = QInt(TableRow(name).Points)

\* what is reported instead: the mean of the stored values, which carries the
\* goal-difference effect times the mean goal difference
C19_ExpectedStoredPoints ==
    ~IsNone(expectedOut) =>
        \A name \in DOMAIN expectedOut :
            expectedOut[name] =
                QAdd(MeanLeaguePoints(name),
                     QMul(seasonCall.simParams.GoalDifferenceEffect,
                          MeanGoalDifference(name)))

\* a returned projection with a team of the table that has no remaining
\* fixture and whose expected points are not its table points
C19_IdleTeamOffTable ==
    /\ pc = "SeasonReturned"
    /\ \E name \in DOMAIN expectedOut :
          /\ FixturesOf(name) = {}
          /\ TableRow(name).Played > 0
          /\ expectedOut[name] # QInt(TableRow(name).Points)

----------------------------------------------------------------------------
(* getTimeWeight on the season codes of an archive (specification          *)
(* SpecWeight).  The solver is built from an archive of two matches, one   *)
(* of a regular season and one with the season code in question.           *)

MaxSeasonLen == 5

SeasonAlphabet == {"2", "3", "5", "x", "-"}

SeasonCodes == UNION {[1..n -> SeasonAlphabet] : n \in 0..MaxSeasonLen}

Season2526 == <<"2", "5", "2", "6">>

WeightOptions == [SimParams |-> SimParams(Q(1, 2), 0, Q(1, 100)), Debug |-> FALSE]

InitWeight ==
    /\ pc = "getTimeWeight"
    /\ \E regular \in {Season2425, Season2526}, season \in SeasonCodes :
          /\ solver = NewMLESolver(<<Match("2025-01-01", regular, "ENG1", "A", "B", 1, 0),
                                     Match("2025-01-02", season, "ENG1", "B", "A", 0, 0)>>,
                                   WeightOptions, {})
          /\ seasonCall = [season |-> season]
    /\ params = Nil /\ iter = 0 /\ prevLogLikelihood = QZero
    /\ optOut = None /\ steps = 0 /\ llTrace = <<>>
    /\ seasonTable = <<>> /\ remainingFixtures = <<>> /\ simPoints = None
    /\ positionCache = <<>> /\ sortOrders = <<>> /\ goalsDrawn = <<>>
    /\ expectedOut = None /\ markValuesOut = None /\ timeWeightOut = None
    /\ poisson = None /\ detect = None /\ dixon = None /\ positionCalls = <<>>
    /\ PayoffIdle /\ MarketsIdle /\ RunIdle /\ OrchIdle

\* s.getTimeWeight(season) for the season of the second match
GetTimeWeight ==
    /\ pc = "getTimeWeight"
    /\ timeWeightOut' = getTimeWeight(solver, seasonCall.season)
    /\ pc' = "getTimeWeightReturned"
    /\ UNCHANGED <<seasonCall, seasonTable, remainingFixtures, simPoints, positionCache,
                   sortOrders, goalsDrawn, expectedOut, markValuesOut,
                   poisson, detect, dixon, positionCalls,
                   payoffVars, marketVars, solverVars, runVars, orchVars>>

NextWeight == GetTimeWeight

SpecWeight == InitWeight /\ [][NextWeight]_vars

\* exactly four digits
FourDigits(season) == Len(season) = 4 /\ AllDigits(season)

\* the start year of a code of four digits YYNN
StartYear(season) == 2000 + DigitsVal(SubSeq(season, 1, 2))

\* base^(D * power) for the start years of the latest season and the season
DecayedWeight(s, season) ==
    Pow(s.options.SimParams.TimeDecayBase,
        QMul(QInt(StartYear(s.latestSeason) - StartYear(season)),
             s.options.SimParams.TimeDecayPower))

\* C20: a season code that is not exactly four digits gets the weight 1, and
\* a code of four digits the weight base^(D * power), D being the start year
\* of the latest season less that of the code
C20_TimeWeight ==
    pc = "getTimeWeightReturned" =>
        IF ~FourDigits(seasonCall.season) THEN timeWeightOut = QOne
        ELSE FourDigits(solver.latestSeason)
                 => timeWeightOut = DecayedWeight(solver, seasonCall.season)

\* the part of it that holds: the codes of four digits
C20_FourDigitWeight ==
    (pc = "getTimeWeightReturned"
        /\ FourDigits(seasonCall.season) /\ FourDigits(solver.latestSeason))
        => /\ timeWeightOut = DecayedWeight(solver, seasonCall.season)
           /\ seasonCall.season = solver.latestSeason => timeWeightOut = QOne

\* a code that is not four digits and gets a weight other than 1
C20_MalformedDecayed ==
    /\ pc = "getTimeWeightReturned"
    /\ ~FourDigits(seasonCall.season)
    /\ timeWeightOut # QOne

----------------------------------------------------------------------------
(* The learning rate of a gradient step.                                    *)

\* the teams of the league-change set that updateRatings finds with their
\* last match in the latest season
EnhancedTeams ==
    {t \in solver.leagueChangeTeams :
        /\ \E i \in 1..Len(solver.matches) : Plays(solver.matches[i], t)
        /\ teamLastMatch(solver, t).Season = solver.latestSeason}

\* the rate updateRatings applies to the gradients of the team
AppliedRate(t) ==
    getAdaptiveLearningRate(solver, t, solver.options.SimParams.BaseLearningRate,
                            teamLastMatch(solver, t))

\* C21: a team of the league-change set whose match is of the latest season
\* is stepped with the rate base * (R - (R - 1) * w), which lies above base
\* and at most at R * base while the season lasts; every other team is
\* stepped with base
C21_EnhancedRate ==
    (~IsNone(solver) /\ steps > 0) =>
        \A t \in {u \in solver.teamNames :
                     \E i \in 1..Len(solver.matches) : Plays(solver.matches[i], u)} :
            IF t \in EnhancedTeams
            THEN /\ QLt(solver.options.SimParams.BaseLearningRate, AppliedRate(t))
                 /\ QLe(AppliedRate(t),
                        QMul(solver.options.SimParams.LeagueChangeLearningRate,
                             solver.options.SimParams.BaseLearningRate))
            ELSE AppliedRate(t) = solver.options.SimParams.BaseLearningRate

\* what holds instead: the weight of the latest season is 1, so every team
\* is stepped with base and the league-change set does not change the step
C21_RateIsBase ==
    (~IsNone(solver) /\ steps > 0) =>
        /\ getTimeWeight(solver, solver.latestSeason) = QOne
        /\ \A t \in {u \in solver.teamNames :
                        \E i \in 1..Len(solver.matches) : Plays(solver.matches[i], u)} :
               AppliedRate(t) = solver.options.SimParams.BaseLearningRate

\* a step taken for a league-change team in its latest season with a
\* league-change rate of 2, at the base rate
C21_NotEnhanced ==
    /\ ~IsNone(solver) /\ steps > 0
    /\ solver.options.SimParams.LeagueChangeLearningRate = QInt(2)
    /\ \E t \in EnhancedTeams :
           AppliedRate(t) = solver.options.SimParams.BaseLearningRate

----------------------------------------------------------------------------
(* Optimize on a reordered archive.                                         *)

\* the loop of Optimize from pass it on, as a function of the solver
RECURSIVE OptimizeLoop(_, _, _, _)
OptimizeLoop(s, p, it, prevLL) ==
    IF it < s.options.SimParams.MaxIterations
    THEN LET stepped == updateRatings(s, p, s.options.SimParams.BaseLearningRate)
             currentLogLikelihood == CalculateLogLikelihood(s, stepped)
         IN  IF convergedAt(it, currentLogLikelihood, prevLL, s.options.SimParams.Tolerance)
             THEN convergedParams(stepped, currentLogLikelihood, it)
             ELSE OptimizeLoop(s, stepped, it + 1, currentLogLikelihood)
    ELSE maxIterationsParams(s, p)

\* the MLEParams Optimize returns
Optimize(s) ==
    OptimizeLoop(s, initialParams(s), 0, CalculateLogLikelihood(s, initialParams(s)))

\* the orders of an archive of n matches
ArchiveOrders(n) ==
    {order \in [1..n -> 1..n] : \A i, j \in 1..n : order[i] = order[j] => i = j}

\* the solver built from the archive of the solver in another order
Reordered(order) ==
    NewMLESolver([i \in 1..Len(solver.matches) |-> solver.matches[order[i]]],
                 solver.options, solver.leagueChangeTeams)

\* C22: Optimize returns the same ratings, log-likelihood, iteration count
\* and convergence flag for the archive in any order
C22_ArchiveOrder ==
    pc = "OptimizeReturned" =>
        \A order \in ArchiveOrders(Len(solver.matches)) :
            Optimize(Reordered(order)) = optOut.params

\* a returned run with steps taken on an archive of two different matches,
\* in which a league-change team has its last match in the latest season in
\* one order and in an earlier season in the other
C22_Witness ==
    /\ pc = "OptimizeReturned"
    /\ steps > 0
    /\ Len(solver.matches) = 2
    /\ solver.matches[1].Season # solver.matches[2].Season
    /\ \E t \in solver.leagueChangeTeams :
           Plays(solver.matches[1], t) /\ Plays(solver.matches[2], t)

----------------------------------------------------------------------------
(* PoissonSample step by step (specification SpecPoisson).  poisson holds  *)
(* the argument lambda, the locals L, k and p of the inverse-transform     *)
(* loop, and out, the value returned.  rand.Float64 returns a value of     *)
(* [0, 1) and rand.NormFloat64 any real; the model draws from              *)
(* UniformDraws and NormalDraws.                                           *)

PoissonLambdas ==
    {QInt(-1), Q(-1, 2), QZero, Q(1, 2), QOne, Q(3, 2), QInt(2), QInt(3), QInt(4),
     QInt(16), QInt(25)}

UniformDraws == {QZero, Q(1, 4), Q(1, 2), Q(3, 4)}

NormalDraws == {QInt(-6), QInt(-1), QZero, Q(1, 2), QInt(2)}

\* the whole part of the square root of a natural number
ISqrt(n) == CHOOSE r \in 0..n : r * r <= n /\ n < (r + 1) * (r + 1)

\* math.Sqrt, exact on the squares the model uses
Sqrt(x) == Q(ISqrt(x.n), ISqrt(x.d))

\* math.Max
QMax(a, b) == IF QLt(a, b) THEN b ELSE a

\* int(x): the fraction is dropped
QTrunc(x) == IF x.n >= 0 THEN x.n \div x.d ELSE -((-x.n) \div x.d)

InitPoisson ==
    /\ pc = "PoissonSample"
    /\ \E lambda \in PoissonLambdas :
           poisson = [lambda |-> lambda, L |-> QZero, k |-> 0, p |-> QZero, out |-> 0]
    /\ seasonCall = None /\ seasonTable = <<>> /\ remainingFixtures = <<>>
    /\ simPoints = None /\ positionCache = <<>> /\ sortOrders = <<>> /\ goalsDrawn = <<>>
    /\ expectedOut = None /\ markValuesOut = None /\ timeWeightOut = None
    /\ detect = None /\ dixon = None /\ positionCalls = <<>>
    /\ PayoffIdle /\ MarketsIdle /\ SolverIdle /\ RunIdle /\ OrchIdle

\* PoissonSample up to the loop, or to its return where there is no loop
PoissonEnter ==
    /\ pc = "PoissonSample"
    /\ IF QLt(poisson.lambda, QZero)
       THEN /\ poisson' = [poisson EXCEPT !.out = 0]
            /\ pc' = "PoissonSampleReturned"
       ELSE IF QLt(poisson.lambda, QInt(NormalFrom))
       THEN /\ poisson' = [poisson EXCEPT !.L = Exp(QNeg(poisson.lambda)),
                                          !.k = 0,
                                          !.p = QOne]
            /\ pc' = "PoissonLoop"
       ELSE /\ \E z \in NormalDraws :
                   poisson' =
                       [poisson EXCEPT !.out =
                           QTrunc(QMax(QZero,
                                       QAdd(QAdd(QMul(z, Sqrt(poisson.lambda)),
                                                 poisson.lambda),
                                            Q(1, 2))))]
            /\ pc' = "PoissonSampleReturned"
    /\ UNCHANGED <<seasonCall, seasonTable, remainingFixtures, simPoints, positionCache,
                   sortOrders, goalsDrawn, expectedOut, markValuesOut, timeWeightOut,
                   detect, dixon, positionCalls,
                   payoffVars, marketVars, solverVars, runVars, orchVars>>

\* one pass of "for p > L"
PoissonPass ==
    /\ pc = "PoissonLoop"
    /\ QLt(poisson.L, poisson.p)
    /\ \E u \in UniformDraws :
           poisson' = [poisson EXCEPT !.k = poisson.k + 1, !.p = QMul(poisson.p, u)]
    /\ UNCHANGED <<pc, seasonCall, seasonTable, remainingFixtures, simPoints,
                   positionCache, sortOrders, goalsDrawn, expectedOut, markValuesOut,
                   timeWeightOut,
                   detect, dixon, positionCalls,
                   payoffVars, marketVars, solverVars, runVars, orchVars>>

\* "return k - 1"
PoissonExit ==
    /\ pc = "PoissonLoop"
    /\ ~QLt(poisson.L, poisson.p)
    /\ poisson' = [poisson EXCEPT !.out = poisson.k - 1]
    /\ pc' = "PoissonSampleReturned"
    /\ UNCHANGED <<seasonCall, seasonTable, remainingFixtures, simPoints, positionCache,
                   sortOrders, goalsDrawn, expectedOut, markValuesOut, timeWeightOut,
                   detect, dixon, positionCalls,
                   payoffVars, marketVars, solverVars, runVars, orchVars>>

NextPoisson == PoissonEnter \/ PoissonPass \/ PoissonExit

SpecPoisson == InitPoisson /\ [][NextPoisson]_vars

\* C23: PoissonSample returns a non-negative count for every lambda and
\* every outcome of the random source, and 0 for a negative lambda
C23_NonNegativeSample ==
    pc = "PoissonSampleReturned" =>
        /\ poisson.out >= 0
        /\ QLt(poisson.lambda, QZero) => poisson.out = 0

\* the part of it that holds: every lambda other than 0
C23_NonZeroLambda ==
    (pc = "PoissonSampleReturned" /\ poisson.lambda # QZero) =>
        /\ poisson.out >= 0
        /\ QLt(poisson.lambda, QZero) => poisson.out = 0

\* what the set of outcomes used in the projection says of the same calls
C23_OutcomeSet ==
    pc = "PoissonSampleReturned" =>
        (poisson.out < 0 <=> PoissonSample(poisson.lambda) = {-1})

\* PoissonSample(0) returned -1
C23_NegativeSample ==
    /\ pc = "PoissonSampleReturned"
    /\ poisson.lambda = QZero
    /\ poisson.out = -1

----------------------------------------------------------------------------
(* Options without SimParams.                                              *)

\* the run stopped on a nil-pointer dereference
Panicked == pc \in {"OptimizePanic", "Panic"}

\* C24: a run whose options hold no SimParams never fails on them: it does
\* not panic, and once the optimisation has begun the solver works with
\* DefaultSimParams()
C24_NilSimParamsDefaulted ==
    (~IsNone(call) /\ IsNil(call.options.SimParams)) =>
        /\ ~Panicked
        /\ ~IsNone(solver) => solver.options.SimParams = DefaultMLEOptions.SimParams

\* what the code does with such options: RunSimulation replaces only the
\* zero MLEOptions, so the solver has the defaults exactly when Debug is
\* false, and RunMLESolver's own copy of the options is never replaced
C24_OnlyZeroOptionsDefaulted ==
    (~IsNone(call) /\ IsNil(call.options.SimParams) /\ ~IsNone(solver)) =>
        /\ solver.options = withDefaults(call.options)
        /\ (solver.options.SimParams = DefaultMLEOptions.SimParams) <=> ~call.options.Debug
        /\ pc = "RunMLESolverReturned" /\ solverOut.err = "" =>
               DOMAIN result.Leagues = {}

\* the zero options went through the optimisation with the defaults and
\* the season projection then panicked on RunMLESolver's nil SimParams
C24_ProjectionPanics ==
    /\ pc = "Panic"
    /\ call.options = ZeroMLEOptions
    /\ solver.options.SimParams = DefaultMLEOptions.SimParams
    /\ runOut.err = ""

\* options with Debug set and no SimParams reached Optimize as they were
\* given and the run panicked there
C24_OptimizePanics ==
    /\ pc = "OptimizePanic"
    /\ call.options = NilDebugOptions
    /\ IsNil(solver.options.SimParams)
----------------------------------------------------------------------------
(* DetectPromotedTeams step by step (specification SpecDetect).  detect    *)
(* holds ep.events, the index of the event the first loop is at, the map   *)
(* teamSeasonLeague, the teams the second loop has been through and the    *)
(* map promotedTeams as the set of its keys.                               *)

DetectTeams == {"A", "B", "C"}

DetectSeasons == {Season2324, Season2425, Season2526}

DetectLeagues == {"ENG1", "ENG2"}

DetectEventPool ==
    {Match(<<>>, season, league, pair[1], pair[2], 0, 0) :
        season \in DetectSeasons, league \in DetectLeagues,
        pair \in {<<"A", "B">>, <<"B", "C">>, <<"C", "A">>}}

\* every order in which a Go range can go through a set of map keys
KeyOrders(keys) ==
    {order \in [1..Cardinality(keys) -> keys] :
        \A i, j \in 1..Cardinality(keys) : i # j => order[i] # order[j]}

\* "teamSeasonLeague[event.HomeTeam][event.Season] = event.League" and the
\* same for the away team, the inner maps made where they are missing
recordEvent(seasonLeague, event) ==
    [team \in DOMAIN seasonLeague \cup {event.HomeTeam, event.AwayTeam} |->
        IF Plays(event, team)
        THEN (event.Season :> event.League)
                 @@ (IF team \in DOMAIN seasonLeague THEN seasonLeague[team] ELSE <<>>)
        ELSE seasonLeague[team]]

\* "seasons[i], seasons[j] = seasons[j], seasons[i]"
swapSeasons(seasons, i, j) ==
    [seasons EXCEPT ![i] = seasons[j], ![j] = seasons[i]]

\* the two nested loops "Sort seasons to check chronologically", from the
\* pass (i, j) on
RECURSIVE sortSeasonsFrom(_, _, _)
sortSeasonsFrom(seasons, i, j) ==
    IF i > Len(seasons) - 1 THEN seasons
    ELSE IF j > Len(seasons) THEN sortSeasonsFrom(seasons, i + 1, i + 2)
    ELSE IF StrLess(seasons[j], seasons[i])
         THEN sortSeasonsFrom(swapSeasons(seasons, i, j), i, j + 1)
         ELSE sortSeasonsFrom(seasons, i, j + 1)

sortSeasons(seasons) == sortSeasonsFrom(seasons, 1, 2)

\* a loop that stops one pair short
leagueChanges_ShortLoop(seasonLeagues, seasons) ==
    {i \in 1..(Len(seasons) - 2) :
        seasonLeagues[seasons[i]] # seasonLeagues[seasons[i + 1]]}

\* "Check for league changes between consecutive seasons": the indices i at
\* which currentLeague != nextLeague
leagueChanges(seasonLeagues, seasons) ==
    {i \in 1..(Len(seasons) - 1) :
        seasonLeagues[seasons[i]] # seasonLeagues[seasons[i + 1]]}

InitDetect ==
    /\ pc = "DetectPromotedTeams"
    /\ \E n \in 0..MaxEvents :
       \E events \in [1..n -> DetectEventPool] :
           detect = [events |-> events, next |-> 1, teamSeasonLeague |-> <<>>,
                     ranged |-> {}, promotedTeams |-> {}]
    /\ dixon = None /\ positionCalls = <<>>
    /\ PayoffIdle /\ MarketsIdle /\ SolverIdle /\ RunIdle /\ OrchIdle
    /\ seasonCall = None /\ seasonTable = <<>> /\ remainingFixtures = <<>>
    /\ simPoints = None /\ positionCache = <<>> /\ sortOrders = <<>> /\ goalsDrawn = <<>>
    /\ expectedOut = None /\ markValuesOut = None /\ timeWeightOut = None
    /\ poisson = None

detectFrame ==
    <<dixon, positionCalls, seasonCall, seasonTable, remainingFixtures, simPoints, positionCache,
      sortOrders, goalsDrawn, expectedOut, markValuesOut, timeWeightOut, poisson,
      payoffVars, marketVars, solverVars, runVars, orchVars>>

\* one pass of "for _, event := range ep.events"
DetectRecord ==
    /\ pc = "DetectPromotedTeams"
    /\ detect.next <= Len(detect.events)
    /\ detect' = [detect EXCEPT
                     !.teamSeasonLeague = recordEvent(@, detect.events[detect.next]),
                     !.next = @ + 1]
    /\ UNCHANGED <<pc, detectFrame>>

\* one pass of "for team, seasonLeagues := range teamSeasonLeague": the
\* seasons are collected in the order of the range over the inner map
DetectTeam ==
    /\ pc = "DetectPromotedTeams"
    /\ detect.next > Len(detect.events)
    /\ \E team \in DOMAIN detect.teamSeasonLeague \ detect.ranged :
       \E collected \in KeyOrders(DOMAIN detect.teamSeasonLeague[team]) :
       \E seasons \in {sortSeasons(collected)} :
           detect' = [detect EXCEPT
                         !.ranged = @ \cup {team},
                         !.promotedTeams =
                             IF leagueChanges(detect.teamSeasonLeague[team], seasons) # {}
                             THEN @ \cup {team} ELSE @]
    /\ UNCHANGED <<pc, detectFrame>>

\* "return promotedTeams"
DetectReturn ==
    /\ pc = "DetectPromotedTeams"
    /\ detect.next > Len(detect.events)
    /\ DOMAIN detect.teamSeasonLeague = detect.ranged
    /\ pc' = "DetectPromotedTeamsReturned"
    /\ UNCHANGED <<detect, detectFrame>>

NextDetect == DetectRecord \/ DetectTeam \/ DetectReturn

SpecDetect == InitDetect /\ [][NextDetect]_vars

\* the seasons of the archive in which the team plays
SeasonsOf(events, team) ==
    {events[i].Season : i \in {j \in 1..Len(events) : Plays(events[j], team)}}

\* the two seasons are next to each other in the team's ascending list
AdjacentSeasons(events, team, s1, s2) ==
    /\ s1 \in SeasonsOf(events, team) /\ s2 \in SeasonsOf(events, team)
    /\ StrLess(s1, s2)
    /\ ~\E s3 \in SeasonsOf(events, team) : StrLess(s1, s3) /\ StrLess(s3, s2)

\* C25: the detector returns exactly the teams that have two seasons next to
\* each other in their ascending list of seasons with different leagues
\* recorded; seasons the team is absent from do not separate two seasons,
\* and a team with one league in all its seasons is not returned
C25_FlaggedIffAdjacentChange ==
    pc = "DetectPromotedTeamsReturned" =>
        /\ detect.promotedTeams = DetectLeagueChangeTeams(detect.events)
        /\ \A team \in ExtractTeams(detect.events) :
               LET seasonLeagues == teamSeasonLeague(detect.events, team) IN
               /\ DOMAIN seasonLeagues = SeasonsOf(detect.events, team)
               /\ team \in detect.promotedTeams <=>
                      \E s1, s2 \in DetectSeasons :
                          /\ AdjacentSeasons(detect.events, team, s1, s2)
                          /\ seasonLeagues[s1] # seasonLeagues[s2]
               /\ Cardinality({seasonLeagues[s] : s \in DOMAIN seasonLeagues}) = 1
                      => team \notin detect.promotedTeams
        /\ detect.promotedTeams \subseteq ExtractTeams(detect.events)

\* A played in 2324 and in 2526 and not in 2425, a season of the archive,
\* changed its league between the two and was flagged; B kept its league in
\* all its seasons and was not
C25_Witness ==
    /\ pc = "DetectPromotedTeamsReturned"
    /\ SeasonsOf(detect.events, "A") = {Season2324, Season2526}
    /\ Season2425 \in SeasonsOf(detect.events, "B")
    /\ Cardinality(SeasonsOf(detect.events, "B")) = 2
    /\ "A" \in detect.promotedTeams
    /\ "B" \notin detect.promotedTeams
----------------------------------------------------------------------------
(* normalizeRatings and the goal expectations (specification Spec).        *)

\* the loop is about to make a pass
PassDue == pc = "OptimizeLoop" /\ iter < solver.options.SimParams.MaxIterations

\* the parameters of the coming pass right before its call of
\* normalizeRatings, and right after it
BeforeNormalize == gradientStep(solver, params, solver.options.SimParams.BaseLearningRate)

AfterNormalize == normalizeRatings(solver, BeforeNormalize)

\* a fixture of the two teams
Pairing(home, away) == Match(<<>>, solver.latestSeason, "", home, away, 0, 0)

TeamPairs == {pair \in solver.teamNames \X solver.teamNames : pair[1] # pair[2]}

\* the mean of the ratings of the solver's teams
MeanRating(ratings) ==
    QDiv(SumOver(solver.teamNames, ratings), QInt(Cardinality(solver.teamNames)))

\* a_home - d_away and a_away - d_home, the exponents but for the home advantage
HomeExponent(p, pair) == QSub(p.AttackRatings[pair[1]], p.DefenseRatings[pair[2]])

AwayExponent(p, pair) == QSub(p.AttackRatings[pair[2]], p.DefenseRatings[pair[1]])

\* C26: normalizeRatings leaves lambda_home and lambda_away of every ordered
\* pair of teams as they were, and with them the log-likelihood
C26_LambdasUnchanged ==
    PassDue =>
        /\ \A pair \in TeamPairs :
               /\ lambdaHome(AfterNormalize, Pairing(pair[1], pair[2]))
                      = lambdaHome(BeforeNormalize, Pairing(pair[1], pair[2]))
               /\ lambdaAway(AfterNormalize, Pairing(pair[1], pair[2]))
                      = lambdaAway(BeforeNormalize, Pairing(pair[1], pair[2]))
        /\ CalculateLogLikelihood(solver, AfterNormalize)
               = CalculateLogLikelihood(solver, BeforeNormalize)

\* what normalizeRatings does to the exponents: each loses the attack mean
\* and gains the defence mean, so the lambdas stay only where the means agree
C26_ExponentsShifted ==
    PassDue =>
        LET shift == QSub(MeanRating(BeforeNormalize.DefenseRatings),
                          MeanRating(BeforeNormalize.AttackRatings))
        IN  /\ \A pair \in TeamPairs :
                   /\ HomeExponent(AfterNormalize, pair)
                          = QAdd(HomeExponent(BeforeNormalize, pair), shift)
                   /\ AwayExponent(AfterNormalize, pair)
                          = QAdd(AwayExponent(BeforeNormalize, pair), shift)
            /\ AfterNormalize.HomeAdvantage = BeforeNormalize.HomeAdvantage
            /\ shift = QZero =>
                   \A pair \in TeamPairs :
                       lambdaHome(AfterNormalize, Pairing(pair[1], pair[2]))
                           = lambdaHome(BeforeNormalize, Pairing(pair[1], pair[2]))

\* a pass in which the two means differ and the renormalisation changes a
\* goal expectation and the log-likelihood
C26_LambdaChanged ==
    /\ PassDue
    /\ MeanRating(BeforeNormalize.AttackRatings) # MeanRating(BeforeNormalize.DefenseRatings)
    /\ \E pair \in TeamPairs :
           lambdaHome(AfterNormalize, Pairing(pair[1], pair[2]))
               # lambdaHome(BeforeNormalize, Pairing(pair[1], pair[2]))
    /\ CalculateLogLikelihood(solver, AfterNormalize)
           # CalculateLogLikelihood(solver, BeforeNormalize)
----------------------------------------------------------------------------
(* One SimPoints under calls of simulate and positionProbabilities in any  *)
(* order (specification SpecSimPoints).                                    *)

MaxSimulateCalls == 2

MaxPositionCalls == 2

\* newSimPoints: every path of every team at 0 points
newSimPoints(teamNames, nPaths) ==
    [NPaths |-> nPaths,
     TeamNames |-> teamNames,
     Points |-> [i \in 1..Len(teamNames) |-> [j \in 1..nPaths |-> QZero]]]

SimPointsFixtures == {<<"A", "B">>, <<"B", "A">>}

\* the non-nil arguments of positionProbabilities: two orders of one subset,
\* a smaller subset and a list without a team of the SimPoints
PositionLists == {<<"A", "B">>, <<"B", "A">>, <<"A">>, <<"Z">>}

SimPointsSimParams == [SimParams(Q(1, 2), 0, Q(1, 100)) EXCEPT !.SimulationPaths = 1]

InitSimPoints ==
    /\ pc = "SimPoints"
    /\ \E nPaths \in {1, 2} : simPoints = newSimPoints(<<"A", "B">>, nPaths)
    /\ positionCache = <<>> /\ positionCalls = <<>> /\ goalsDrawn = <<>>
    /\ seasonCall = None /\ seasonTable = <<>> /\ remainingFixtures = <<>>
    /\ sortOrders = <<>> /\ expectedOut = None /\ markValuesOut = None
    /\ timeWeightOut = None /\ poisson = None /\ detect = None /\ dixon = None
    /\ PayoffIdle /\ MarketsIdle /\ SolverIdle /\ RunIdle /\ OrchIdle

simPointsFrame ==
    <<pc, seasonCall, seasonTable, remainingFixtures, sortOrders, expectedOut,
      markValuesOut, timeWeightOut, poisson, detect, dixon,
      payoffVars, marketVars, solverVars, runVars, orchVars>>

\* a call of simulate
Simulate ==
    /\ pc = "SimPoints"
    /\ Len(goalsDrawn) < MaxSimulateCalls
    /\ \E fixture \in SimPointsFixtures :
       \E goals \in fixtureDraws(SeasonParams, fixture, simPoints.NPaths) :
          /\ simPoints' = simulate(simPoints, fixture[1], fixture[2], goals,
                                   SimPointsSimParams)
          /\ goalsDrawn' = Append(goalsDrawn, goals)
    /\ UNCHANGED <<positionCache, positionCalls, simPointsFrame>>

\* a call of positionProbabilities, a nil list replaced by sp.TeamNames: the
\* cached map where the key is in the
\* cache, the empty map where no name is a team, else a new map that is
\* put into the cache
PositionProbabilities ==
    /\ pc = "SimPoints"
    /\ Len(positionCalls) < MaxPositionCalls
    /\ \E teamNames \in PositionLists \cup {simPoints.TeamNames} :
       \E key \in {cacheKey(teamNames)} :
          IF key \in DOMAIN positionCache
          THEN /\ positionCalls' =
                      Append(positionCalls,
                             [teamNames |-> teamNames, points |-> simPoints.Points,
                              out |-> positionCache[key]])
               /\ UNCHANGED positionCache
          ELSE IF Len(selectedIndices(simPoints, teamNames)) = 0
          THEN /\ positionCalls' =
                      Append(positionCalls,
                             [teamNames |-> teamNames, points |-> simPoints.Points,
                              out |-> <<>>])
               /\ UNCHANGED positionCache
          ELSE \E order \in positionOrders(simPoints,
                                           selectedIndices(simPoints, teamNames)) :
               \E probabilities \in {positionProbabilities(simPoints, teamNames, order)} :
                  /\ positionCalls' =
                         Append(positionCalls,
                                [teamNames |-> teamNames, points |-> simPoints.Points,
                                 out |-> probabilities])
                  /\ positionCache' = (key :> probabilities) @@ positionCache
    /\ UNCHANGED <<simPoints, goalsDrawn, simPointsFrame>>

NextSimPoints == Simulate \/ PositionProbabilities

SpecSimPoints == InitSimPoints /\ [][NextSimPoints]_vars

\* the maps that can be computed for the list from a Points matrix
ProbabilitiesOf(points, teamNames) ==
    LET sp == [simPoints EXCEPT !.Points = points] IN
    IF Len(selectedIndices(sp, teamNames)) = 0 THEN {<<>>}
    ELSE {positionProbabilities(sp, teamNames, order) :
             order \in positionOrders(sp, selectedIndices(sp, teamNames))}

\* the first call with the cache key
FirstCallOf(key) ==
    CHOOSE i \in DOMAIN positionCalls :
        /\ cacheKey(positionCalls[i].teamNames) = key
        /\ \A h \in 1..(i - 1) : cacheKey(positionCalls[h].teamNames) # key

\* C27: whatever calls of simulate and positionProbabilities came before,
\* a call of positionProbabilities returns probabilities computed from the
\* Points matrix as it is at the call; two calls whose lists are orderings
\* of one subset have one cache entry and return equal maps
C27_CurrentProbabilities ==
    \A i \in DOMAIN positionCalls :
        /\ positionCalls[i].out
               \in ProbabilitiesOf(positionCalls[i].points, positionCalls[i].teamNames)
        /\ \A j \in DOMAIN positionCalls :
               cacheKey(positionCalls[i].teamNames) = cacheKey(positionCalls[j].teamNames)
                   => positionCalls[i].out = positionCalls[j].out

\* the part about the orderings, and what a call returns: the map computed
\* at the first call of the key, whatever simulate did since
C27_SharedEntry ==
    /\ \A i, j \in DOMAIN positionCalls :
           cacheKey(positionCalls[i].teamNames) = cacheKey(positionCalls[j].teamNames)
               => /\ positionCalls[i].out = positionCalls[j].out
                  /\ i = FirstCallOf(cacheKey(positionCalls[j].teamNames)) =>
                         positionCalls[j].out
                             \in ProbabilitiesOf(positionCalls[i].points,
                                                 positionCalls[i].teamNames)
    /\ DOMAIN positionCache
           = {cacheKey(positionCalls[i].teamNames) :
                 i \in {j \in DOMAIN positionCalls : positionCalls[j].out # <<>>}}
    /\ \A i \in DOMAIN positionCalls :
           positionCalls[i].out # <<>> =>
               positionCache[cacheKey(positionCalls[i].teamNames)] = positionCalls[i].out

\* the order of the calls in the projection of a season: once the cache
\* has an entry, every fixture has been simulated and Points stays as it is
C27_SimulateBeforeProbabilities ==
    [][positionCache # <<>> \/ positionCache' # <<>> =>
           /\ simPoints' = simPoints
           /\ Len(goalsDrawn) = Len(remainingFixtures)]_vars

\* a second call with the other ordering of the list came after a call of
\* simulate and returned the map of the first call, which cannot be
\* computed from the matrix it was called on
C27_StaleProbabilities ==
    /\ Len(positionCalls) = 2
    /\ positionCalls[1].teamNames = <<"A", "B">>
    /\ positionCalls[2].teamNames = <<"B", "A">>
    /\ positionCalls[2].out = positionCalls[1].out
    /\ positionCalls[2].points # positionCalls[1].points
    /\ positionCalls[2].out
           \notin ProbabilitiesOf(positionCalls[2].points, positionCalls[2].teamNames)
----------------------------------------------------------------------------
(* The two Dixon-Coles factors (specification SpecDixonColes).  dixon      *)
(* holds the arguments and what each of the two functions returned.        *)

\* the package function DixonColesAdjustment, which NewScoreMatrix calls for
\* every cell of the matrix
ScoreMatrixDixonColesAdjustment(homeGoals, awayGoals, rho) ==
    CASE homeGoals = 0 /\ awayGoals = 0 -> QSub(QOne, rho)
      [] homeGoals = 1 /\ awayGoals = 0 -> QAdd(QOne, rho)
      [] homeGoals = 0 /\ awayGoals = 1 -> QAdd(QOne, rho)
      [] homeGoals = 1 /\ awayGoals = 1 -> QSub(QOne, rho)
      [] OTHER -> QOne

MaxScore == 3

GoalCounts == (-2)..MaxScore

RhoChoices == {Q(-1, 10), Q(-1, 1), QZero, Q(1, 20), QInt(2)}

InitDixonColes ==
    /\ pc = "DixonColes"
    /\ \E homeGoals \in GoalCounts, awayGoals \in GoalCounts, rho \in RhoChoices :
           dixon = [homeGoals |-> homeGoals, awayGoals |-> awayGoals, rho |-> rho,
                    likelihood |-> None, scoreMatrix |-> None]
    /\ positionCalls = <<>> /\ detect = None /\ poisson = None
    /\ seasonCall = None /\ seasonTable = <<>> /\ remainingFixtures = <<>>
    /\ simPoints = None /\ positionCache = <<>> /\ sortOrders = <<>> /\ goalsDrawn = <<>>
    /\ expectedOut = None /\ markValuesOut = None /\ timeWeightOut = None
    /\ PayoffIdle /\ MarketsIdle /\ SolverIdle /\ RunIdle /\ OrchIdle

dixonFrame ==
    <<pc, positionCalls, detect, poisson, seasonCall, seasonTable, remainingFixtures,
      simPoints, positionCache, sortOrders, goalsDrawn, expectedOut, markValuesOut,
      timeWeightOut, payoffVars, marketVars, solverVars, runVars, orchVars>>

\* the call of the method, as in CalculateLogLikelihood
LikelihoodAdjustment ==
    /\ pc = "DixonColes"
    /\ IsNone(dixon.likelihood)
    /\ dixon' = [dixon EXCEPT !.likelihood =
                    DixonColesAdjustment(dixon.homeGoals, dixon.awayGoals, dixon.rho)]
    /\ UNCHANGED dixonFrame

\* the call of the function, as in NewScoreMatrix
ScoreMatrixAdjustment ==
    /\ pc = "DixonColes"
    /\ IsNone(dixon.scoreMatrix)
    /\ dixon' = [dixon EXCEPT !.scoreMatrix =
                    ScoreMatrixDixonColesAdjustment(dixon.homeGoals, dixon.awayGoals,
                                                    dixon.rho)]
    /\ UNCHANGED dixonFrame

NextDixonColes == LikelihoodAdjustment \/ ScoreMatrixAdjustment

SpecDixonColes == InitDixonColes /\ [][NextDixonColes]_vars

\* the factor as the Dixon-Coles model states it
StatedFactor(homeGoals, awayGoals, rho) ==
    IF <<homeGoals, awayGoals>> \in {<<0, 0>>, <<1, 1>>} THEN QSub(QOne, rho)
    ELSE IF <<homeGoals, awayGoals>> \in {<<0, 1>>, <<1, 0>>} THEN QAdd(QOne, rho)
    ELSE QOne

\* C28: the factor of the likelihood and the factor of the score matrix are
\* equal for every score and rho, negative goal counts included: 1 - rho
\* for 0-0 and 1-1, 1 + rho for 0-1 and 1-0, 1 for every other score, and 1
\* for every score when rho is 0
C28_SameFactor ==
    /\ ~IsNone(dixon.likelihood) =>
           /\ dixon.likelihood = StatedFactor(dixon.homeGoals, dixon.awayGoals, dixon.rho)
           /\ dixon.rho = QZero => dixon.likelihood = QOne
    /\ ~IsNone(dixon.scoreMatrix) =>
           /\ dixon.scoreMatrix = StatedFactor(dixon.homeGoals, dixon.awayGoals, dixon.rho)
           /\ dixon.rho = QZero => dixon.scoreMatrix = QOne
    /\ (~IsNone(dixon.likelihood) /\ ~IsNone(dixon.scoreMatrix)) =>
           dixon.likelihood = dixon.scoreMatrix

\* both functions were called for a score with a negative goal count and a
\* rho other than 0, and both returned 1
C28_Witness ==
    /\ dixon.homeGoals = -1 /\ dixon.awayGoals = 0
    /\ dixon.rho = Q(-1, 10)
    /\ dixon.likelihood = QOne
    /\ dixon.scoreMatrix = QOne
----------------------------------------------------------------------------
(* The league-change set and the fit (specification Spec).                 *)

\* the solver with another league-change set
WithLeagueChangeTeams(set) == [solver EXCEPT !.leagueChangeTeams = set]

\* the solver of an archive whose latest season is the code
WithLatestSeason(code) == [solver EXCEPT !.latestSeason = code]

\* season codes of up to four characters, most of which do not parse
ShortSeasonCodes == {code \in SeasonCodes : Len(code) <= 4}

----------------------------------------------------------------------------
(* The two payoff parsers (specification SpecPayoff).                      *)

====
